---------------------------- MODULE Spec2Model ----------------------------
(***************************************************************************)
(* Model of the MoneyMind import pipeline: the CSV parsers                 *)
(* (database/csv_parser.py), the description cleaner, duplicate check,     *)
(* insert, audit record and batch importer (database/data_importer.py),    *)
(* over an SQLite store with one write lock and per-connection             *)
(* transactions.                                                           *)
(*                                                                         *)
(* Text is modelled as a sequence of one-character strings.  The source's  *)
(* CJK characters are written as ASCII tokens (their pinyin), one token    *)
(* per character: "fu" "kuan" "-" is the three-character prefix of         *)
(* data_importer.py line 30.  "Y" is the yen sign, "yuan" the character    *)
(* the WeChat parser strips from amounts.                                  *)
(***************************************************************************)
EXTENDS Integers, Sequences, FiniteSets, TLC

\* ------------------------------------------------------------------ bounds
MaxPieces == 3      \* most pieces a raw description drawn for the cleaner is made of
MaxRows == 2        \* most data rows in a file
MaxCalls == 2       \* import_data calls made on one connection
MaxFaults == 1      \* storage errors the environment raises in one behaviour
MaxPreamble == 2    \* most lines of a text file before its header line
MaxFooter == 1      \* most lines of a text file after its last data row
MaxExpenses == 2    \* most expense rows imported before classification and updates
MaxStatements == 2  \* most statements the handler of one request runs

\* Constants of ai_layer/llm_interface.py.
MAX_RETRIES == 3
INITIAL_BACKOFF_SECONDS == 1

\* Python's None, in a slot that otherwise holds a record, a string, a count.
None == [none |-> TRUE]
NoneStr == "None"
NoneInt == 0 - 1

\* ------------------------------------------------------- text primitives
Drop(s, n) == SubSeq(s, n + 1, Len(s))

StartsWith(s, p) == Len(p) <= Len(s) /\ SubSeq(s, 1, Len(p)) = p

IsSpace(c) == c \in {" ", "\t"}

RECURSIVE LStrip(_)
LStrip(s) == IF s # <<>> /\ IsSpace(Head(s)) THEN LStrip(Tail(s)) ELSE s

RECURSIVE RStrip(_)
RStrip(s) ==
    IF s # <<>> /\ IsSpace(s[Len(s)]) THEN RStrip(SubSeq(s, 1, Len(s) - 1)) ELSE s

\* str.strip()
Strip(s) == RStrip(LStrip(s))

\* str.replace(pat, ""): leftmost non-overlapping occurrences, one pass.
\* Python returns the string unchanged when pat is empty.
RECURSIVE Remove(_, _)
Remove(s, pat) ==
    IF pat = <<>> \/ s = <<>> THEN s
    ELSE IF StartsWith(s, pat) THEN Remove(Drop(s, Len(pat)), pat)
    ELSE <<Head(s)>> \o Remove(Tail(s), pat)

\* re.sub(r"^(P)+", "", s): every repetition of P at the start is removed.
RECURSIVE StripPrefixPlus(_, _)
StripPrefixPlus(s, p) ==
    IF p # <<>> /\ StartsWith(s, p) THEN StripPrefixPlus(Drop(s, Len(p)), p) ELSE s

\* re.sub(r"^\s*-\s*", "", s)
SubLeadingHyphen(s) ==
    LET t == LStrip(s)
    IN  IF t # <<>> /\ Head(t) = "-" THEN LStrip(Tail(t)) ELSE s

\* re.sub(r"\s*-\s*$", "", s): the last non-space character must be the hyphen;
\* the leftmost match takes the whole run of spaces before it.
SubTrailingHyphen(s) ==
    LET t == RStrip(s)
    IN  IF t # <<>> /\ t[Len(t)] = "-" THEN RStrip(SubSeq(t, 1, Len(t) - 1)) ELSE s

\* re.sub(r"\s+", " ", s)
RECURSIVE CollapseSpaces(_)
CollapseSpaces(s) ==
    IF s = <<>> THEN <<>>
    ELSE IF IsSpace(Head(s)) THEN <<" ">> \o CollapseSpaces(LStrip(s))
    ELSE <<Head(s)>> \o CollapseSpaces(Tail(s))

\* ------------------------------------------------- description cleaner
generic_prefixes_to_remove ==
    << <<"wei", "xin", "zhi", "fu", "-">>,
       <<"zhi", "fu", "bao", "-">>,
       <<"fu", "kuan", "-">>,
       <<"zhi", "fu", "-">>,
       <<"zhuan", "zhang", "gei", "-">>,
       <<"shou", "kuan", "fang", "-">>,
       <<"hua", "bei", "kou", "kuan", "-">>,
       <<"hua", "bei", "-">>,
       <<"yu", "e", "bao", "-">>,
       <<"ling", "qian", "tong", "-">>,
       <<"ling", "qian", "-">>,
       <<"sao", "ma", "fu", "kuan", "-">>,
       <<"sao", "ma", "zhi", "fu", "-">>,
       <<"xiao", "fei", "-">>,
       <<"gou", "wu", "xiao", "fei", "-">>,
       <<"jiao", "yi", "lei", "xing", "colon_fw", "xiao", "fei", "comma_fw", "bei4", "zhu", "colon_fw">>,
       <<"jiao", "yi", "lei", "xing", "colon_fw", "sao", "ma", "zhi", "fu", "comma_fw", "bei4", "zhu", "colon_fw">> >>

\* Phase 1: the for loop over the prefix patterns, each applied once, in order.
RECURSIVE RemovePrefixes(_, _)
RemovePrefixes(s, i) ==
    IF i > Len(generic_prefixes_to_remove) THEN s
    ELSE RemovePrefixes(StripPrefixPlus(s, generic_prefixes_to_remove[i]), i + 1)

\* Phases 1 to 6: the value of `cleaned` when the final test is reached.
CleaningSteps(source_raw_description) ==
    LET p1 == RemovePrefixes(source_raw_description, 1)
        p3 == Remove(p1, <<"fu", "kuan", "gei">>)
        p5 == SubTrailingHyphen(SubLeadingHyphen(Strip(p3)))
    IN  Strip(CollapseSpaces(p5))

\* The final test of the cleaner with every answer `cleaned`: a variant of
\* CleanedOrOriginal that never falls back to the original description.
CleanedAlways(source_raw_description, cleaned) == cleaned

\* Lines 76-84: an empty result is replaced by the original description; a bare
\* "-" or "/" is returned as it is.
CleanedOrOriginal(source_raw_description, cleaned) ==
    IF cleaned = <<>> \/ cleaned = <<"-">> \/ cleaned = <<"/">>
    THEN IF cleaned = <<>> /\ source_raw_description # <<>>
         THEN source_raw_description ELSE cleaned
    ELSE cleaned

_generate_cleaned_description(source_raw_description, channel) ==
    IF source_raw_description = <<>> THEN <<>>
    ELSE CleanedOrOriginal(source_raw_description,
                           CleaningSteps(source_raw_description))

\* ------------------------------------------------------ amount parsing
Digits == {"0", "1"}

RECURSIVE StripLeadingZeros(_)
StripLeadingZeros(s) ==
    IF Len(s) > 1 /\ Head(s) = "0" THEN StripLeadingZeros(Tail(s)) ELSE s

RECURSIVE TakeDigits(_)
TakeDigits(s) ==
    IF s # <<>> /\ Head(s) \in Digits THEN <<Head(s)>> \o TakeDigits(Tail(s)) ELSE <<>>

\* decimal.Decimal(text): optional sign, digits with at most one point and at
\* least one digit; anything else raises InvalidOperation (None here).  The
\* value keeps its sign, integer digits and fraction digits.
ParseDecimal(text) ==
    LET t == Strip(text)
        signed == t # <<>> /\ Head(t) \in {"-", "+"}
        body == IF signed THEN Tail(t) ELSE t
        ip == TakeDigits(body)
        rest == Drop(body, Len(ip))
        hasPoint == rest # <<>> /\ Head(rest) = "."
        fp == IF hasPoint THEN TakeDigits(Tail(rest)) ELSE <<>>
        tail == IF hasPoint THEN Drop(rest, 1 + Len(fp)) ELSE rest
    IN  IF tail = <<>> /\ Len(ip) + Len(fp) > 0
        THEN [sign |-> IF signed /\ Head(t) = "-" THEN 1 ELSE 0,
              int |-> IF ip = <<>> THEN <<"0">> ELSE StripLeadingZeros(ip),
              frac |-> fp]
        ELSE None

\* A variant of AbsDecimal that keeps the sign of the parsed amount.
KeepSign(d) == d

\* abs(amount_decimal)
AbsDecimal(d) == [d EXCEPT !.sign = 0]

\* str(Decimal): the text bound to the amount column.
StrDecimal(d) ==
    (IF d.sign = 1 THEN <<"-">> ELSE <<>>) \o d.int
        \o (IF d.frac = <<>> THEN <<>> ELSE <<".">> \o d.frac)

_clean_amount(amount_str, currency_symbol) ==
    IF amount_str = <<>> THEN None
    ELSE LET d == ParseDecimal(Strip(Remove(amount_str, currency_symbol)))
         IN  IF d = None THEN None ELSE AbsDecimal(d)

\* ---------------------------------------------------- datetime parsing
\* Raw transaction-time fields: "t1", "t2"; "t1/min" is t1 written with slashes
\* and minute precision, which strptime's second format accepts; anything else
\* matches no format.

_parse_datetime(datetime_str) ==
    CASE datetime_str \in {"", "/"} -> NoneStr
      [] datetime_str \in {"t1", "t1/min"} -> "t1 00"
      [] datetime_str = "t2" -> "t2 00"
      [] OTHER -> NoneStr

\* _get_row_value: the field, stripped.  The time, direction, status and id
\* fields are atomic values here and carry no surrounding blanks.
TextFields == {"amount", "partner", "item"}

_get_row_value(row, key) ==
    IF key \in TextFields THEN Strip(row[key]) ELSE row[key]

\* --------------------------------------------------------- files and rows
\* Field values: "zhichu" is the outflow direction, "zhifu_chenggong" the
\* WeChat success status, "jiaoyi_chenggong" the Alipay success status.
RawRow(time, dir, status, amount, id, partner, item) ==
    [time |-> time, dir |-> dir, status |-> status, amount |-> amount,
     id |-> id, partner |-> partner, item |-> item]

RawRowPool ==
    { RawRow("t1", "zhichu", "zhifu_chenggong", <<"1">>, "A", <<"a">>, <<>>),
      RawRow("t2", "zhichu", "zhifu_chenggong", <<"-", "1">>, "A",
             <<"fu", "kuan", "-", "a">>, <<"a">>),
      RawRow("t1/min", "zhichu", "zhifu_chenggong", <<"1", "yuan">>, "B", <<>>, <<>>),
      RawRow("t1", "zhichu", "jiaoyi_chenggong", <<"-", "1", ".", "0">>, "A",
             <<"fu", "kuan", "-">>, <<>>) }

RECURSIVE SeqsUpTo(_, _)
SeqsUpTo(S, n) ==
    IF n = 0 THEN {<<>>}
    ELSE LET shorter == SeqsUpTo(S, n - 1)
         IN  shorter \cup {Append(s, x) : s \in {t \in shorter : Len(t) = n - 1}, x \in S}

\* What reading the file under one candidate encoding gives: a decode error,
\* a text with no header line, a header without a critical column, or a
\* header with every critical column.
EncOutcomes == {"decode_error", "no_header", "missing_critical", "ok"}

File(exists, enc, rows) == [exists |-> exists, enc |-> enc, rows |-> rows]

\* A file that is not there; UTF-8 files with a full header and up to MaxRows
\* rows; a GBK file (UTF-8 fails to decode it); files that no candidate reads.
Files ==
    {File(FALSE, <<"ok", "ok">>, <<>>)}
    \cup {File(TRUE, <<"ok", "decode_error">>, rows) : rows \in SeqsUpTo(RawRowPool, MaxRows)}
    \cup {File(TRUE, <<"decode_error", "ok">>, <<r>>) : r \in RawRowPool}
    \cup {File(TRUE, <<e1, e2>>, <<>>) :
            e1 \in EncOutcomes \ {"ok"}, e2 \in EncOutcomes \ {"ok"}}

\* What the file is, by the first candidate encoding that decodes it.
RECURSIVE FileKindFrom(_, _)
FileKindFrom(file, i) ==
    IF ~file.exists THEN "missing"
    ELSE IF i > Len(file.enc) THEN "undecodable"
    ELSE IF file.enc[i] = "decode_error" THEN FileKindFrom(file, i + 1)
    ELSE file.enc[i]

FileKind(file) == FileKindFrom(file, 1)

\* The calls a client can make: a file and the channel given for it.  One file
\* stands for all under a channel import_data does not support, which reads none.
Inputs ==
    {<<f, ch>> : f \in Files, ch \in {"WeChat Pay", "Alipay"}}
    \cup {<<File(TRUE, <<"ok", "decode_error">>, <<>>), "Other">>}

\* More rows, for a client that imports one file: rows the parsers leave out
\* ("shouru" is the inflow direction, "zhifu_shibai" a failed payment, "Y" the
\* yen sign no parser strips), an Alipay row with an id of its own, and a row
\* whose id column is empty.
RawRowPoolWide ==
    RawRowPool \cup
    { RawRow("t2", "zhichu", "zhifu_chenggong", <<"Y", "1">>, "B", <<"a">>, <<>>),
      RawRow("t2", "shouru", "zhifu_chenggong", <<"1">>, "B", <<"a">>, <<>>),
      RawRow("t2", "zhichu", "zhifu_shibai", <<"1">>, "B", <<"a">>, <<>>),
      RawRow("t2", "zhichu", "jiaoyi_chenggong", <<" ">>, "A", <<"a">>, <<>>),
      RawRow("t2", "zhichu", "jiaoyi_chenggong", <<"1">>, "B", <<"a">>, <<>>),
      RawRow("t1", "zhichu", "zhifu_chenggong", <<"1">>, "", <<"a">>, <<>>) }

FilesWide ==
    Files \cup {File(TRUE, <<"ok", "decode_error">>, rows) :
                    rows \in SeqsUpTo(RawRowPoolWide, MaxRows)}

InputsWide ==
    Inputs \cup {<<f, ch>> : f \in FilesWide, ch \in {"WeChat Pay", "Alipay"}}

\* ------------------------------------------------------------- parsers
\* f"{trade_partner} - {item_name}".strip(), and the "-" replacement.
RawDescription(partner, item) ==
    LET d == Strip(partner \o <<" ", "-", " ">> \o item)
    IN  IF d = <<"-">> THEN (IF item # <<>> THEN item ELSE partner) ELSE d

\* The body of the row loop: the expense of one row, or None when the row is
\* filtered out or skipped.
RowExpense(row, channel, success, amount_val, parsed_time) ==
    IF _get_row_value(row, "dir") # "zhichu" THEN None
    ELSE IF _get_row_value(row, "status") # success THEN None
    ELSE IF amount_val = None THEN None
    ELSE IF parsed_time = NoneStr THEN None
    ELSE [transaction_time |-> parsed_time,
          amount |-> amount_val,
          channel |-> channel,
          source_raw_description |->
              RawDescription(_get_row_value(row, "partner"),
                             _get_row_value(row, "item")),
          external_transaction_id |-> _get_row_value(row, "id")]

\* A variant of ParseRow that keeps a row whose amount cannot be read, with
\* amount 0.
ParseRowLenient(row, channel, success, currency_symbol) ==
    LET amount_val == _clean_amount(_get_row_value(row, "amount"), currency_symbol)
    IN  RowExpense(row, channel, success,
                   IF amount_val = None THEN [sign |-> 0, int |-> <<"0">>, frac |-> <<>>]
                   ELSE amount_val,
                   _parse_datetime(_get_row_value(row, "time")))

\* A variant of ParseRow that takes the status of any row for the success
\* status.
ParseRowAnyStatus(row, channel, success, currency_symbol) ==
    RowExpense(row, channel, _get_row_value(row, "status"),
               _clean_amount(_get_row_value(row, "amount"), currency_symbol),
               _parse_datetime(_get_row_value(row, "time")))

\* One row of the loop: the amount and the time are read, then the row is
\* filtered.
ParseRow(row, channel, success, currency_symbol) ==
    RowExpense(row, channel, success,
               _clean_amount(_get_row_value(row, "amount"), currency_symbol),
               _parse_datetime(_get_row_value(row, "time")))

\* expenses.append(expense), unless the row was filtered out or skipped.
AppendExpense(expenses, e) == IF e = None THEN expenses ELSE Append(expenses, e)

RECURSIVE ParseRows(_, _, _, _, _)
ParseRows(rows, channel, success, currency_symbol, expenses) ==
    IF rows = <<>> THEN expenses
    ELSE ParseRows(Tail(rows), channel, success, currency_symbol,
                   AppendExpense(expenses,
                                 ParseRow(Head(rows), channel, success, currency_symbol)))

\* The status a parser takes for a completed payment, and the currency text
\* it strips from the amount.
SuccessStatus(channel) ==
    IF channel = "WeChat Pay" THEN "zhifu_chenggong" ELSE "jiaoyi_chenggong"

CurrencySymbol(channel) == IF channel = "WeChat Pay" THEN <<"yuan">> ELSE <<>>

Returned(expenses) == [raised |-> FALSE, expenses |-> expenses]
Raised == [raised |-> TRUE, expenses |-> <<>>]

\* The encoding loop of parse_wechat_csv from candidate i on.  A missing file
\* and a missing header return []; a decode error and a missing critical
\* column go on to the next candidate; when the candidates run out,
\* file_content_ready was never assigned and its test raises UnboundLocalError.
RECURSIVE WechatEncodings(_, _)
WechatEncodings(file, i) ==
    IF i > Len(file.enc) THEN Raised
    ELSE IF ~file.exists THEN Returned(<<>>)
    ELSE CASE file.enc[i] = "decode_error" -> WechatEncodings(file, i + 1)
           [] file.enc[i] = "no_header" -> Returned(<<>>)
           [] file.enc[i] = "missing_critical" -> WechatEncodings(file, i + 1)
           [] OTHER -> Returned(ParseRows(file.rows, "WeChat Pay", "zhifu_chenggong",
                                          <<"yuan">>, <<>>))

parse_wechat_csv(file) == WechatEncodings(file, 1)

\* The encoding loop of parse_alipay_csv: every failure but a missing file goes
\* on to the next candidate, and file_content_ready starts False, so running
\* out of candidates returns [].
RECURSIVE AlipayEncodings(_, _)
AlipayEncodings(file, i) ==
    IF i > Len(file.enc) THEN Returned(<<>>)
    ELSE IF ~file.exists THEN Returned(<<>>)
    ELSE IF file.enc[i] # "ok" THEN AlipayEncodings(file, i + 1)
    ELSE Returned(ParseRows(file.rows, "Alipay", "jiaoyi_chenggong", <<>>, <<>>))

parse_alipay_csv(file) == AlipayEncodings(file, 1)

\* --------------------------------------------------------------- state
Conns == {"c1", "c2"}

VARIABLES
    expenses,        \* committed rows of table expenses
    import_sources,  \* committed rows of table import_sources, oldest first
    wlock,           \* the connection holding SQLite's write lock, or NoneStr
    txn,             \* per connection: expenses rows inserted, not yet committed
    txn_audit,       \* per connection: import_sources rows inserted, not yet committed
    pc,              \* per connection: where its import_data call stands
    call_channel,    \* per connection: the channel argument of its call
    fs,              \* <<input>> when the client repeats one call, <<>> when it makes any
    parsed_records,  \* per connection: the parser's list
    idx,             \* per connection: position of the row loop
    summary,         \* per connection: the summary dict
    current_time_iso,\* per connection: the call's timestamp
    clock,           \* the wall clock, one tick per call
    budget,          \* per connection: calls it may still start
    faults,          \* storage errors the environment may still raise
    cl,              \* a description put through the cleaner on its way to a row
    am,              \* an amount field put through a parser's row loop
    pf,              \* a text file put through a parser
    lc,              \* expense rows under classification and user updates
    rq,              \* requests, worker threads and their thread-local connections
    rt,              \* one call of get_llm_classification
    ctx,             \* per connection: what the call was given and met (history)
    last             \* the call that returned last (history)

vars == <<expenses, import_sources, wlock, txn, txn_audit, pc, call_channel, fs, parsed_records, idx,
          summary, current_time_iso, clock, budget, faults, ctx, last, cl, am, pf, lc, rq, rt>>

NewSummary ==
    [total_records_in_file |-> 0, successfully_imported |-> 0,
     skipped_duplicates |-> 0, parse_errors |-> 0, insert_errors |-> 0,
     status_message |-> ""]

\* What a call that returned leaves for the history: its counters and the
\* errors it met.
NoLast ==
    [total |-> 0, clean |-> FALSE, returned |-> FALSE, imported |-> 0, skipped |-> 0,
     insert_errors |-> 0, errs |-> {}]

NoCtx ==
    [kind |-> "", reimport |-> FALSE, prev_total |-> 0, before |-> {}, errs |-> {},
     again |-> FALSE, prev |-> NoLast]

\* ------------------------------------------------------------- storage
\* What the statements of connection c read: the committed rows and its own
\* uncommitted ones.
View(c) == expenses \cup txn[c]

\* A variant of UniqueViolation: a table created without the UNIQUE constraint.
NoUniqueConstraint(rows, id) == FALSE

\* external_transaction_id TEXT UNIQUE
UniqueViolation(rows, id) == \E e \in rows : e.external_transaction_id = id

\* A write statement needs the write lock: free, or already this connection's.
CanWrite(c) == wlock \in {NoneStr, c}

\* -------------------------------------------------- duplicate detector
\* A variant of _check_duplicate_failed that answers True: a query that fails
\* makes the row a duplicate.
_check_duplicate_failed_closed(parsed_record) == TRUE

\* Lines 104-106 of _check_duplicate: a query that raises sqlite3.Error is
\* logged and answered False.
_check_duplicate_failed(parsed_record) == FALSE

\* A variant of _check_duplicate that answers for any stored row.
_check_duplicate_any(rows, parsed_record, channel) == rows # {}

\* The SELECT of _check_duplicate, when the query succeeds.
_check_duplicate(rows, parsed_record, channel) ==
    \E e \in rows :
        /\ e.channel = channel
        /\ e.transaction_time = parsed_record.transaction_time
        /\ e.amount = StrDecimal(parsed_record.amount)
        /\ e.external_transaction_id = parsed_record.external_transaction_id

\* data_tuple of _insert_expense: the row the INSERT binds.
ExpenseRow(parsed_record, channel, time_iso) ==
    [transaction_time |-> parsed_record.transaction_time,
     amount |-> StrDecimal(parsed_record.amount),
     channel |-> channel,
     source_raw_description |-> parsed_record.source_raw_description,
     description_for_ai |->
         _generate_cleaned_description(parsed_record.source_raw_description, channel),
     external_transaction_id |-> parsed_record.external_transaction_id,
     is_classified_by_ai |-> 0, is_confirmed_by_user |-> 0, is_hidden |-> 0,
     imported_at |-> time_iso]

\* _insert_expense with every sqlite3.Error answered False: a variant of
\* InsertResult that does not single out the UNIQUE constraint.
InsertResultAllErrors(outcome) == IF outcome = "ok" THEN "True" ELSE "False"

\* A variant of InsertResult that answers every failed INSERT as it answers
\* the UNIQUE constraint.
InsertResultAllDuplicates(outcome) ==
    IF outcome = "ok" THEN "True" ELSE "duplicate_external_id"

\* The result of _insert_expense given how the INSERT ended.
InsertResult(outcome) ==
    CASE outcome = "ok" -> "True"
      [] outcome = "unique" -> "duplicate_external_id"
      [] OTHER -> "False"

\* The row loop with a rejected id counted as an insert error: a variant of
\* CountedAs.
CountedAsError(insert_result) ==
    IF insert_result = "True" THEN "successfully_imported" ELSE "insert_errors"

\* Lines 239-242: the counter the result of _insert_expense adds to.
CountedAs(insert_result) ==
    CASE insert_result = "True" -> "successfully_imported"
      [] insert_result = "duplicate_external_id" -> "skipped_duplicates"
      [] OTHER -> "insert_errors"

\* ------------------------------------------------------- audit record
\* The status chain of _record_import_source.
ImportStatus(records_imported_count, total_records_in_file, parse_errors_count, db_insert_errors_count) ==
    LET chain ==
            IF parse_errors_count > 0 THEN "Failed (Parsing)"
            ELSE IF total_records_in_file = NoneInt THEN "Failed (Internal Error)"
            ELSE IF total_records_in_file = 0
                 THEN (IF db_insert_errors_count = 0 THEN "Success (No Data)"
                       ELSE "Failed (DB Error on Empty)")
            ELSE IF db_insert_errors_count > 0
                 THEN (IF records_imported_count > 0 THEN "Partial (DB Errors)"
                       ELSE "Failed (DB Errors)")
            ELSE IF records_imported_count = total_records_in_file THEN "Success"
            ELSE IF records_imported_count < total_records_in_file
                 THEN "Partial (Skipped/Duplicates)"
            ELSE "Failed"
        count == IF parse_errors_count > 0 \/ total_records_in_file = NoneInt
                 THEN 0 ELSE records_imported_count
    IN  IF chain = "Failed" /\ count = 0 /\ total_records_in_file > 0
           /\ parse_errors_count = 0 /\ db_insert_errors_count = 0
        THEN "Success (All Duplicates/Skipped)" ELSE chain

\* The row _record_import_source inserts (file_name is left out: a file is
\* known here by its content).
_record_import_source(channel, import_timestamp_iso, records_imported_count, total_records_in_file, parse_errors_count, db_insert_errors_count) ==
    [source_channel |-> channel,
     import_timestamp |-> import_timestamp_iso,
     records_imported |->
         IF parse_errors_count > 0 \/ total_records_in_file = NoneInt
         THEN 0 ELSE records_imported_count,
     status |-> ImportStatus(records_imported_count, total_records_in_file,
                             parse_errors_count, db_insert_errors_count)]

\* ------------------------------------------------------- import_data
\* Lines 200-224: the parse stage.  Where the call goes next, its summary and
\* the parser's list.  The parsers catch FileNotFoundError themselves, so the
\* handler of line 209 is never entered.
AfterParse(channel, result) ==
    IF channel \notin {"WeChat Pay", "Alipay"}
    THEN [pc |-> "u_record", parsed |-> <<>>,
          summary |-> [NewSummary EXCEPT !.parse_errors = 1,
                                         !.status_message = "Unsupported channel"]]
    ELSE IF result.raised
    THEN [pc |-> "p_record", parsed |-> <<>>,
          summary |-> [NewSummary EXCEPT !.parse_errors = 1,
                                         !.status_message = "Parsing failed"]]
    ELSE IF result.expenses = <<>>
    THEN [pc |-> "n_record", parsed |-> <<>>,
          summary |-> [NewSummary EXCEPT !.status_message = "No processable records"]]
    ELSE [pc |-> "check", parsed |-> result.expenses,
          summary |-> [NewSummary EXCEPT
                          !.total_records_in_file = Len(result.expenses)]]

ParseStage(file, channel) ==
    AfterParse(channel, IF channel = "WeChat Pay" THEN parse_wechat_csv(file)
                        ELSE parse_alipay_csv(file))

\* The calls open to the client.
Available == IF fs = <<>> THEN Inputs ELSE {fs[1]}

\* The parse stage of every call a client can make, and what each file is.
ParseStageOf == [input \in InputsWide |-> ParseStage(input[1], input[2])]

FileKindOf == [input \in InputsWide |-> FileKind(input[1])]

\* Lines 229-234: the record has its keys and a Decimal amount.
ValidRecord(record) == record.amount # None

\* The row loop moves to the next record, or leaves the loop.
Advance(c, new_summary) ==
    /\ summary' = [summary EXCEPT ![c] = new_summary]
    /\ IF idx[c] < Len(parsed_records[c])
       THEN idx' = [idx EXCEPT ![c] = @ + 1] /\ pc' = [pc EXCEPT ![c] = "check"]
       ELSE idx' = idx /\ pc' = [pc EXCEPT ![c] = "record"]

Note(c, e) == ctx' = [ctx EXCEPT ![c].errs = @ \cup {e}]

Bump(s, counter) == [s EXCEPT ![counter] = @ + 1]

\* The history kept for the call connection c starts on a file of this kind.  The call is a
\* re-import when the client repeats one call, made it just before, that call
\* met no storage error, and no other call is under way.
StartCtx(c, kind) ==
    LET alone == \A d \in Conns \ {c} : pc[d] = "idle"
    IN  [d \in Conns |->
            IF d = c
            THEN [kind |-> kind,
                  reimport |-> alone /\ last.returned /\ last.clean
                               /\ fs # <<>>,
                  prev_total |-> last.total,
                  before |-> expenses,
                  errs |-> IF alone THEN {} ELSE {"overlap"},
                  again |-> alone /\ last.returned /\ fs # <<>>,
                  prev |-> last]
            ELSE IF pc[d] = "idle" THEN ctx[d]
            ELSE [ctx[d] EXCEPT !.errs = @ \cup {"overlap"}]]

\* import_data is called: the parse stage, up to the first statement sent to
\* the store.
Enter(c, stage) ==
    /\ pc' = [pc EXCEPT ![c] = stage.pc]
    /\ parsed_records' = [parsed_records EXCEPT ![c] = stage.parsed]
    /\ summary' = [summary EXCEPT ![c] = stage.summary]

Begin(c) ==
    /\ pc[c] = "idle"
    /\ budget[c] > 0
    /\ \E input \in Available :
         /\ call_channel' = [call_channel EXCEPT ![c] = input[2]]
         /\ Enter(c, ParseStageOf[input])
         /\ ctx' = StartCtx(c, FileKindOf[input])
    /\ idx' = [idx EXCEPT ![c] = 1]
    /\ clock' = clock + 1
    /\ current_time_iso' = [current_time_iso EXCEPT ![c] = clock + 1]
    /\ budget' = [budget EXCEPT ![c] = @ - 1]
    /\ UNCHANGED <<expenses, import_sources, wlock, txn, txn_audit, faults, last, fs, cl, am, pf, lc, rq, rt>>

\* Lines 229-236: the record is validated and _check_duplicate is called.  A
\* failing query is logged and answered False.
CheckDuplicate(c) ==
    /\ pc[c] = "check"
    /\ LET record == parsed_records[c][idx[c]]
       IN  \/ /\ ~ValidRecord(record)
              /\ Advance(c, Bump(summary[c], "insert_errors"))
              /\ UNCHANGED <<faults, ctx>>
           \/ /\ ValidRecord(record)
              /\ _check_duplicate(View(c), record, call_channel[c])
              /\ Advance(c, Bump(summary[c], "skipped_duplicates"))
              /\ UNCHANGED <<faults, ctx>>
           \/ /\ ValidRecord(record)
              /\ ~_check_duplicate(View(c), record, call_channel[c])
              /\ pc' = [pc EXCEPT ![c] = "insert"]
              /\ UNCHANGED <<idx, summary, faults, ctx>>
           \/ /\ ValidRecord(record)
              /\ faults > 0
              /\ faults' = faults - 1
              /\ Note(c, "check")
              /\ IF _check_duplicate_failed(record)
                 THEN Advance(c, Bump(summary[c], "skipped_duplicates"))
                 ELSE /\ pc' = [pc EXCEPT ![c] = "insert"]
                      /\ UNCHANGED <<idx, summary>>
    /\ UNCHANGED <<expenses, import_sources, wlock, txn, txn_audit, call_channel, fs, cl, am, pf, lc,
                   parsed_records, current_time_iso, clock, budget, last, rq, rt>>

\* Lines 239-242: _insert_expense and the counter its result selects.  The
\* INSERT takes the write lock; it is refused while another connection holds
\* the lock (database is locked) and when the id is already stored.
InsertExpense(c) ==
    /\ pc[c] = "insert"
    /\ LET record == parsed_records[c][idx[c]]
           row == ExpenseRow(record, call_channel[c], current_time_iso[c])
           taken == UniqueViolation(View(c), row.external_transaction_id)
       IN  \/ /\ CanWrite(c) /\ ~taken
              /\ txn' = [txn EXCEPT ![c] = @ \cup {row}]
              /\ wlock' = c
              /\ Advance(c, Bump(summary[c], CountedAs(InsertResult("ok"))))
              /\ UNCHANGED <<faults, ctx>>
           \/ /\ CanWrite(c) /\ taken
              /\ wlock' = c
              /\ Advance(c, Bump(summary[c], CountedAs(InsertResult("unique"))))
              /\ UNCHANGED <<txn, faults, ctx>>
           \/ /\ ~CanWrite(c)
              /\ Note(c, "busy")
              /\ Advance(c, Bump(summary[c], CountedAs(InsertResult("locked"))))
              /\ UNCHANGED <<txn, wlock, faults>>
           \/ /\ faults > 0
              /\ faults' = faults - 1
              /\ Note(c, "insert")
              /\ Advance(c, Bump(summary[c], CountedAs(InsertResult("error"))))
              /\ UNCHANGED <<txn, wlock>>
    /\ UNCHANGED <<expenses, import_sources, txn_audit, call_channel, fs, cl, am, pf, lc, parsed_records,
                   current_time_iso, clock, budget, last, rq, rt>>

RecordPcs == {"u_record", "p_record", "n_record", "record", "rb_record"}

\* The arguments import_data passes to _record_import_source at each call site.
AuditRow(c) ==
    LET s == summary[c]
        a == CASE pc[c] = "u_record" -> <<0, 0, 1, 0>>
               [] pc[c] = "p_record" -> <<0, NoneInt, 1, 0>>
               [] pc[c] = "n_record" -> <<0, 0, 0, 0>>
               [] OTHER -> <<s.successfully_imported, s.total_records_in_file,
                             s.parse_errors, s.insert_errors>>
    IN  _record_import_source(call_channel[c], current_time_iso[c],
                              a[1], a[2], a[3], a[4])

\* _record_import_source is called: its INSERT joins the transaction, or fails
\* and is only logged.
RecordImportSource(c) ==
    /\ pc[c] \in RecordPcs
    /\ \/ /\ CanWrite(c)
          /\ txn_audit' = [txn_audit EXCEPT ![c] = Append(@, AuditRow(c))]
          /\ wlock' = c
          /\ UNCHANGED <<faults, ctx>>
       \/ /\ ~CanWrite(c)
          /\ Note(c, "busy")
          /\ UNCHANGED <<txn_audit, wlock, faults>>
       \/ /\ faults > 0
          /\ faults' = faults - 1
          /\ Note(c, "record")
          /\ UNCHANGED <<txn_audit, wlock>>
    /\ pc' = [pc EXCEPT ![c] =
                CASE pc[c] = "u_record" -> "u_commit"
                  [] pc[c] = "p_record" -> "p_commit"
                  [] pc[c] = "n_record" -> "n_commit"
                  [] pc[c] = "record" -> "commit"
                  [] OTHER -> "rb_commit"]
    /\ UNCHANGED <<expenses, import_sources, txn, call_channel, fs, cl, am, pf, lc, parsed_records, idx,
                   summary, current_time_iso, clock, budget, last, rq, rt>>

CommitPcs == {"u_commit", "p_commit", "n_commit", "commit", "rb_commit"}

\* A variant of RolledBackSummary that counts every row of the file as an
\* insert error.
RolledBackSummaryAllErrors(s) ==
    [s EXCEPT !.status_message = "Database error during import batch",
              !.insert_errors = s.total_records_in_file]

\* Lines 251-252 and 258-259: the summary after the rollback.
RolledBackSummary(s) ==
    [s EXCEPT !.status_message = "Database error during import batch",
              !.insert_errors = s.total_records_in_file - s.successfully_imported
                                - s.skipped_duplicates]

\* db_connection.commit() at each of its call sites, and what follows when it
\* raises: the handler of line 214 after the unsupported-channel commit, the
\* rollback handler after the batch commit, the logged failure after the
\* handler's own commit, and an exception that leaves import_data elsewhere.
Commit(c) ==
    /\ pc[c] \in CommitPcs
    /\ \/ /\ expenses' = expenses \cup txn[c]
          /\ import_sources' = import_sources \o txn_audit[c]
          /\ txn' = [txn EXCEPT ![c] = {}]
          /\ txn_audit' = [txn_audit EXCEPT ![c] = <<>>]
          /\ wlock' = IF wlock = c THEN NoneStr ELSE wlock
          /\ pc' = [pc EXCEPT ![c] = "done"]
          /\ summary' = [summary EXCEPT ![c] =
                            IF pc[c] = "commit"
                            THEN [@ EXCEPT !.status_message = "Import process completed."]
                            ELSE @]
          /\ UNCHANGED <<faults, ctx>>
       \/ /\ wlock = c
          /\ faults > 0
          /\ faults' = faults - 1
          /\ Note(c, "commit")
          /\ UNCHANGED <<expenses, import_sources>>
          /\ CASE pc[c] = "commit" ->
                    /\ txn' = [txn EXCEPT ![c] = {}]
                    /\ txn_audit' = [txn_audit EXCEPT ![c] = <<>>]
                    /\ wlock' = NoneStr
                    /\ summary' = [summary EXCEPT ![c] = RolledBackSummary(@)]
                    /\ pc' = [pc EXCEPT ![c] = "rb_record"]
               [] pc[c] = "u_commit" ->
                    /\ summary' = [summary EXCEPT ![c] =
                                      [@ EXCEPT !.parse_errors = 1,
                                                !.status_message = "Parsing failed"]]
                    /\ pc' = [pc EXCEPT ![c] = "p_record"]
                    /\ UNCHANGED <<txn, txn_audit, wlock>>
               [] pc[c] = "rb_commit" ->
                    /\ pc' = [pc EXCEPT ![c] = "done"]
                    /\ UNCHANGED <<txn, txn_audit, wlock, summary>>
               [] OTHER ->
                    /\ pc' = [pc EXCEPT ![c] = "raised"]
                    /\ UNCHANGED <<txn, txn_audit, wlock, summary>>
    /\ UNCHANGED <<call_channel, fs, cl, am, pf, lc, parsed_records, idx, current_time_iso, clock, budget,
                   last, rq, rt>>

\* import_data has returned its summary, or raised: the caller takes it.  After
\* an exception the caller gives the connection up, which discards what the
\* connection had not committed.
Return(c) ==
    /\ pc[c] \in {"done", "raised"}
    /\ last' = IF fs = <<>> THEN last
               ELSE [total |-> summary[c].total_records_in_file,
                     clean |-> pc[c] = "done" /\ ctx[c].errs = {},
                     returned |-> pc[c] = "done",
                     imported |-> summary[c].successfully_imported,
                     skipped |-> summary[c].skipped_duplicates,
                     insert_errors |-> summary[c].insert_errors,
                     errs |-> ctx[c].errs]
    /\ pc' = [pc EXCEPT ![c] = "idle"]
    /\ call_channel' = [call_channel EXCEPT ![c] = ""]
    /\ parsed_records' = [parsed_records EXCEPT ![c] = <<>>]
    /\ idx' = [idx EXCEPT ![c] = 1]
    /\ summary' = [summary EXCEPT ![c] = NewSummary]
    /\ ctx' = [ctx EXCEPT ![c] = NoCtx]
    /\ IF pc[c] = "raised"
       THEN /\ txn' = [txn EXCEPT ![c] = {}]
            /\ txn_audit' = [txn_audit EXCEPT ![c] = <<>>]
            /\ wlock' = IF wlock = c THEN NoneStr ELSE wlock
       ELSE UNCHANGED <<txn, txn_audit, wlock>>
    /\ UNCHANGED <<expenses, import_sources, current_time_iso, clock, budget, faults, fs, cl, am, pf, lc, rq, rt>>

InitStore ==
    /\ import_sources = <<>>
    /\ wlock = NoneStr
    /\ txn = [c \in Conns |-> {}]
    /\ txn_audit = [c \in Conns |-> <<>>]
    /\ pc = [c \in Conns |-> "idle"]
    /\ call_channel = [c \in Conns |-> ""]
    /\ parsed_records = [c \in Conns |-> <<>>]
    /\ idx = [c \in Conns |-> 1]
    /\ summary = [c \in Conns |-> NewSummary]
    /\ current_time_iso = [c \in Conns |-> 0]
    /\ clock = 0
    /\ ctx = [c \in Conns |-> NoCtx]
    /\ last = NoLast

NoClean == [raw |-> <<>>, channel |-> "", done |-> FALSE,
            source_raw_description |-> <<>>, description_for_ai |-> <<>>]

NoAmount == [raw |-> <<>>, channel |-> "", done |-> FALSE, kept |-> FALSE, amount |-> None]

NoParse == [file |-> None, channel |-> "", done |-> FALSE, result |-> Returned(<<>>)]

NoOp == [name |-> "", id |-> 0]

NoLifecycle == [rows |-> <<>>, op |-> NoOp]

\* The worker threads that run dependencies and the requests under way.
Threads == {"t1", "t2"}

Requests == {"r1", "r2"}

NoRequest == [pc |-> "new", conn |-> 0, statements |-> 0, failed |-> FALSE]

\* No thread has a connection attribute, no connection was made.
NoRequests ==
    [connection |-> [t \in Threads |-> 0], made |-> 0, closed |-> {},
     req |-> [r \in Requests |-> NoRequest]]

\* get_llm_classification not yet called: no request sent, no sleep made.
NoRetry == [config |-> "", pc |-> "idle", attempt |-> 0, outcomes |-> <<>>, slept |-> <<>>,
            result |-> ""]

\* One connection, as the importer's own test run uses it: MaxCalls calls, one
\* after the other.
Init ==
    /\ InitStore
    /\ expenses = {}
    /\ fs = <<>>
    /\ budget = [c \in Conns |-> IF c = "c1" THEN MaxCalls ELSE 0]
    /\ faults = MaxFaults
    /\ cl = NoClean
    /\ am = NoAmount
    /\ pf = NoParse
    /\ lc = NoLifecycle
    /\ rq = NoRequests
    /\ rt = NoRetry

Next ==
    \E c \in Conns :
        \/ Begin(c)
        \/ CheckDuplicate(c)
        \/ InsertExpense(c)
        \/ RecordImportSource(c)
        \/ Commit(c)
        \/ Return(c)

Spec == Init /\ [][Next]_vars

\* ------------------------------------------------- the same file again
\* The calls that leave one row behind: a one-row file, its row accepted.
OneRowInputs ==
    {input \in Inputs : /\ input[1].enc = <<"decode_error", "ok">>
                        /\ ParseStageOf[input].pc = "check"}

\* The store import_data leaves, at time 0, after such a call.
StoreAfter(input) ==
    [expenses |-> {ExpenseRow(ParseStageOf[input].parsed[1], input[2], 0)},
     import_sources |-> <<_record_import_source(input[2], 0, 1, 1, 0, 0)>>]

EmptyStore == [expenses |-> {}, import_sources |-> <<>>]

\* A client that imports one file under one channel, MaxCalls times over, into
\* a store that is empty or holds one row of an earlier import.
InitReimport ==
    /\ InitStore
    /\ \E store \in {EmptyStore} \cup {StoreAfter(input) : input \in OneRowInputs} :
         /\ expenses = store.expenses
         /\ import_sources = store.import_sources
    /\ \E input \in InputsWide : fs = <<input>>
    /\ budget = [c \in Conns |-> IF c = "c1" THEN MaxCalls ELSE 0]
    /\ faults = MaxFaults
    /\ cl = NoClean
    /\ am = NoAmount
    /\ pf = NoParse
    /\ lc = NoLifecycle
    /\ rq = NoRequests
    /\ rt = NoRetry

SpecReimport == InitReimport /\ [][Next]_vars

\* ------------------------------------------------- two connections
\* Two requests at once, each with its own connection to the one database
\* file, each making one call.  The store raises no error but the one a held
\* write lock causes.
InitConc ==
    /\ InitStore
    /\ expenses = {}
    /\ fs = <<>>
    /\ budget = [c \in Conns |-> 1]
    /\ faults = 0
    /\ cl = NoClean
    /\ am = NoAmount
    /\ pf = NoParse
    /\ lc = NoLifecycle
    /\ rq = NoRequests
    /\ rt = NoRetry

SpecConc == InitConc /\ [][Next]_vars

\* ------------------------------------------------- the cleaner alone
CleanerPieces ==
    { <<"fu", "kuan", "-">>, <<"zhi", "fu", "-">>, <<"fu", "kuan", "gei">>,
      <<"fu">>, <<"kuan">>, <<"-">>, <<" ">>, <<"/">>, <<"a">> }

RECURSIVE Concats(_, _)
Concats(S, n) ==
    IF n = 0 THEN {<<>>}
    ELSE LET shorter == Concats(S, n - 1)
         IN  shorter \cup {s \o piece : s \in shorter, piece \in S}

\* The raw descriptions drawn: up to MaxPieces pieces, one after the other.
RawDescriptions == Concats(CleanerPieces, MaxPieces)

\* A parsed record that carries the description.
RecordWith(raw) ==
    [transaction_time |-> "t1 00", amount |-> _clean_amount(<<"1">>, <<>>),
     channel |-> "", source_raw_description |-> raw, external_transaction_id |-> "A"]

InitClean ==
    /\ InitStore
    /\ expenses = {}
    /\ fs = <<>>
    /\ budget = [c \in Conns |-> 0]
    /\ faults = 0
    /\ \E raw \in RawDescriptions, channel \in {"WeChat Pay", "Alipay"} :
         cl = [NoClean EXCEPT !.raw = raw, !.channel = channel]
    /\ am = NoAmount
    /\ pf = NoParse
    /\ lc = NoLifecycle
    /\ rq = NoRequests
    /\ rt = NoRetry

Cleaned(row) ==
    cl' = [cl EXCEPT !.done = TRUE,
                     !.source_raw_description = row.source_raw_description,
                     !.description_for_ai = row.description_for_ai]

\* Lines 115-129 of _insert_expense: the row built for the description.
Clean ==
    /\ ~cl.done
    /\ Cleaned(ExpenseRow(RecordWith(cl.raw), cl.channel, 0))
    /\ UNCHANGED <<expenses, import_sources, wlock, txn, txn_audit, pc, call_channel, fs,
                   parsed_records, idx, summary, current_time_iso, clock, budget,
                   faults, ctx, last, am, pf, lc, rq, rt>>

NextClean == Clean

SpecClean == InitClean /\ [][NextClean]_vars

\* ------------------------------------------- the amount of a row alone
\* The characters of amount fields: "Y" is the yen sign, "yuan" the character
\* the WeChat parser strips.
AmountPieces ==
    { <<"Y">>, <<"yuan">>, <<"1">>, <<"0">>, <<",">>, <<".">>, <<" ">>, <<"-">> }

\* Amount fields as the exports and the parser's own test files write them:
\* Y1,000.10  Y10.10  10.10yuan  1,000.10  10.10
SampleAmounts ==
    { <<"Y", "1", ",", "0", "0", "0", ".", "1", "0">>,
      <<"Y", "1", "0", ".", "1", "0">>,
      <<"1", "0", ".", "1", "0", "yuan">>,
      <<"1", ",", "0", "0", "0", ".", "1", "0">>,
      <<"1", "0", ".", "1", "0">> }

\* The amount fields drawn: the samples and every text of up to MaxPieces
\* characters.
AmountFields == SampleAmounts \cup Concats(AmountPieces, MaxPieces)

\* An outflow row the platform completed, with the amount field.
RowWithAmount(amount, channel) ==
    RawRow("t1", "zhichu", SuccessStatus(channel), amount, "A", <<"a">>, <<>>)

InitAmount ==
    /\ InitStore
    /\ expenses = {}
    /\ fs = <<>>
    /\ budget = [c \in Conns |-> 0]
    /\ faults = 0
    /\ cl = NoClean
    /\ \E raw \in AmountFields, channel \in {"WeChat Pay", "Alipay"} :
         am = [NoAmount EXCEPT !.raw = raw, !.channel = channel]
    /\ pf = NoParse
    /\ lc = NoLifecycle
    /\ rq = NoRequests
    /\ rt = NoRetry

AmountParsed(expense) ==
    am' = [am EXCEPT !.done = TRUE,
                     !.kept = expense # None,
                     !.amount = IF expense = None THEN None ELSE expense.amount]

\* One pass of the row loop of the channel's parser over the row.
ParseAmount ==
    /\ ~am.done
    /\ AmountParsed(ParseRow(RowWithAmount(am.raw, am.channel), am.channel,
                             SuccessStatus(am.channel), CurrencySymbol(am.channel)))
    /\ UNCHANGED <<expenses, import_sources, wlock, txn, txn_audit, pc, call_channel, fs,
                   parsed_records, idx, summary, current_time_iso, clock, budget,
                   faults, ctx, last, cl, pf, lc, rq, rt>>

NextAmount == ParseAmount

SpecAmount == InitAmount /\ [][NextAmount]_vars

\* ------------------------------------------- the parsers on text files
\* A line of an export: prose, a line of hyphens, the title line of an Alipay
\* export, a header line (the columns it names, in the names of a platform),
\* or a data row.  Columns are named by the field they carry; "old_id" is the
\* Alipay column jiaoyi_hao, "merchant_id" is shangjia_dingdanhao.
NoRow == RawRow("", "", "", <<>>, "", <<>>, <<>>)

Line(kind, platform, fields, row) ==
    [kind |-> kind, platform |-> platform, fields |-> fields, row |-> row]

TextLine == Line("text", "", {}, NoRow)
DelimiterLine == Line("delimiter", "", {}, NoRow)
TitleLine == Line("title", "", {}, NoRow)
HeaderLine(platform, fields) == Line("header", platform, fields, NoRow)
DataLine(row) == Line("data", "", {}, row)

RowFields == {"time", "dir", "status", "amount", "id", "partner", "item"}

\* The columns each parser cannot do without: time, amount, direction,
\* status and transaction id, under the platform's names.
CriticalFields == {"time", "amount", "dir", "status", "id"}

\* The header lines drawn: the full header of each platform, one without the
\* id column, and the header of older Alipay exports, which names jiaoyi_hao
\* where later ones name jiaoyi_dingdanhao.
HeaderLines ==
    { HeaderLine("WeChat Pay", RowFields \cup {"merchant_id"}),
      HeaderLine("WeChat Pay", (RowFields \ {"id"}) \cup {"merchant_id"}),
      HeaderLine("Alipay", RowFields \cup {"merchant_id"}),
      HeaderLine("Alipay", (RowFields \ {"id"}) \cup {"merchant_id"}),
      HeaderLine("Alipay", (RowFields \ {"id"}) \cup {"old_id", "merchant_id"}) }

PreambleLines == {TextLine, DelimiterLine, TitleLine}

FooterLines == {TextLine, DelimiterLine}

DataLines ==
    { DataLine(RawRow("t1", "zhichu", "zhifu_chenggong", <<"1">>, "A", <<"a">>, <<>>)),
      DataLine(RawRow("t1", "zhichu", "jiaoyi_chenggong", <<"1">>, "A", <<"a">>, <<>>)) }

\* A text file: whether it exists, the encoding it is written in, whether
\* GBK decodes the bytes of a UTF-8 file (to a text without the header
\* names), and its lines.
TextFile(exists, encoding, gbk_reads, lines) ==
    [exists |-> exists, encoding |-> encoding, gbk_reads |-> gbk_reads, lines |-> lines]

TextFiles ==
    {TextFile(FALSE, "utf-8", FALSE, <<>>)}
    \cup {TextFile(TRUE, e[1], e[2], pre \o head \o data \o foot) :
            e \in {<<"utf-8", FALSE>>, <<"utf-8", TRUE>>, <<"gbk", FALSE>>, <<"other", FALSE>>},
            pre \in SeqsUpTo(PreambleLines, MaxPreamble),
            head \in {<<>>} \cup {<<h>> : h \in HeaderLines},
            data \in SeqsUpTo(DataLines, MaxRows),
            foot \in SeqsUpTo(FooterLines, MaxFooter)}

\* The first of the line numbers, 0 when there is none: where a scan of the
\* lines that stops at its first match stops.
FirstLine(numbers) ==
    IF numbers = {} THEN 0 ELSE CHOOSE i \in numbers : \A j \in numbers : i <= j

\* "jiaoyi_shijian" in line and "jiaoyi_duifang" in line
WechatHeaderKeywords(line) == {"time", "partner"} \subseteq line.fields

\* "jiaoyi_hao" in line and "shangjia_dingdanhao" in line
AlipayFallbackKeywords(line) == {"old_id", "merchant_id"} \subseteq line.fields

IsDelimiter(line) == line.kind = "delimiter"

\* The header names every critical column in the names the parser of the
\* channel looks for.
HasCritical(line, channel) ==
    /\ line.kind = "header"
    /\ line.platform = channel
    /\ CriticalFields \subseteq line.fields

\* The rows the DictReader gives the row loop that the loop can read: a line
\* of prose or hyphens has one field, the other columns are None, and
\* _get_row_value raises AttributeError on them inside the loop's try.
RECURSIVE ReadableRows(_)
ReadableRows(lines) ==
    IF lines = <<>> THEN <<>>
    ELSE (IF Head(lines).kind = "data" THEN <<Head(lines).row>> ELSE <<>>)
             \o ReadableRows(Tail(lines))

Found(outcome, rows) == [outcome |-> outcome, rows |-> rows]

\* Lines 69-102 of parse_wechat_csv on the decoded lines.
WechatDiscover(lines) ==
    LET header_row_index ==
            FirstLine({i \in DOMAIN lines : WechatHeaderKeywords(lines[i])})
    IN  IF header_row_index = 0 THEN Found("no_header", <<>>)
        ELSE IF ~HasCritical(lines[header_row_index], "WeChat Pay")
        THEN Found("missing_critical", <<>>)
        ELSE Found("ok", ReadableRows(SubSeq(lines, header_row_index + 1, Len(lines))))

\* The block of lines 200-226 of parse_alipay_csv: from after the first line
\* of hyphens to before the second; without a line of hyphens, from the first
\* line with the fallback keywords to the end.
AlipayBlock(lines) ==
    LET first == FirstLine({i \in DOMAIN lines : IsDelimiter(lines[i])})
        second == FirstLine({i \in DOMAIN lines : i > first /\ IsDelimiter(lines[i])})
        fallback == FirstLine({i \in DOMAIN lines : AlipayFallbackKeywords(lines[i])})
    IN  IF first # 0
        THEN [found |-> TRUE,
              lines |-> SubSeq(lines, first + 1,
                               IF second = 0 THEN Len(lines) ELSE second - 1)]
        ELSE IF fallback # 0
        THEN [found |-> TRUE, lines |-> SubSeq(lines, fallback, Len(lines))]
        ELSE [found |-> FALSE, lines |-> <<>>]

\* Lines 200-270 of parse_alipay_csv on the decoded lines.
AlipayDiscover(lines) ==
    LET block == AlipayBlock(lines)
    IN  IF ~block.found \/ block.lines = <<>> THEN Found("no_header", <<>>)
        ELSE IF ~HasCritical(Head(block.lines), "Alipay")
        THEN Found("missing_critical", <<>>)
        ELSE Found("ok", ReadableRows(Tail(block.lines)))

Discover(lines, channel) ==
    IF channel = "WeChat Pay" THEN WechatDiscover(lines) ELSE AlipayDiscover(lines)

\* What each candidate encoding gives on the text file, and the rows of the
\* one that reads its header.
FileOf(text_file, channel) ==
    LET found == Discover(text_file.lines, channel)
    IN  File(text_file.exists,
             CASE text_file.encoding = "utf-8" ->
                    <<found.outcome,
                      IF text_file.gbk_reads THEN "no_header" ELSE "decode_error">>
               [] text_file.encoding = "gbk" -> <<"decode_error", found.outcome>>
               [] OTHER -> <<"decode_error", "decode_error">>,
             found.rows)

InitParse ==
    /\ InitStore
    /\ expenses = {}
    /\ fs = <<>>
    /\ budget = [c \in Conns |-> 0]
    /\ faults = 0
    /\ cl = NoClean
    /\ am = NoAmount
    /\ \E text_file \in TextFiles, channel \in {"WeChat Pay", "Alipay"} :
         pf = [NoParse EXCEPT !.file = text_file, !.channel = channel]
    /\ lc = NoLifecycle
    /\ rq = NoRequests
    /\ rt = NoRetry

ParserCalled(result) == pf' = [pf EXCEPT !.done = TRUE, !.result = result]

\* The parser of the channel is called on the file.
ParseFile ==
    /\ ~pf.done
    /\ ParserCalled(IF pf.channel = "WeChat Pay"
                    THEN parse_wechat_csv(FileOf(pf.file, pf.channel))
                    ELSE parse_alipay_csv(FileOf(pf.file, pf.channel)))
    /\ UNCHANGED <<expenses, import_sources, wlock, txn, txn_audit, pc, call_channel, fs,
                   parsed_records, idx, summary, current_time_iso, clock, budget,
                   faults, ctx, last, cl, am, lc, rq, rt>>

NextParse == ParseFile

SpecParse == InitParse /\ [][NextParse]_vars

\* ------------------------- expense rows after import: classify, update
\* The columns of an expense row that classification and confirmation
\* touch (notes and is_hidden are not followed).  The row's id is its
\* position: ids are handed out in order.
StoredExpense(expense_row) ==
    [category_l1 |-> NoneStr, category_l2 |-> NoneStr,
     ai_suggestion_l1 |-> NoneStr, ai_suggestion_l2 |-> NoneStr,
     is_classified_by_ai |-> expense_row.is_classified_by_ai,
     is_confirmed_by_user |-> expense_row.is_confirmed_by_user,
     updated_at |-> expense_row.imported_at,
     described |-> expense_row.description_for_ai # <<>>
                   \/ expense_row.source_raw_description # <<>>]

\* update_expense: the columns of update_data are set and updated_at with
\* them, the others kept; an empty update_data changes nothing.  The row is
\* imported at time 0 and 1 stands for any later time.
update_expense(row, update_data) ==
    IF DOMAIN update_data = {} THEN row
    ELSE [column \in DOMAIN row |->
             IF column = "updated_at" THEN 1
             ELSE IF column \in DOMAIN update_data THEN update_data[column]
             ELSE row[column]]

\* What get_llm_classification answers: nothing, one suggestion, or both.
LLMResults ==
    { [ai_suggestion_l1 |-> NoneStr, ai_suggestion_l2 |-> NoneStr],
      [ai_suggestion_l1 |-> "s", ai_suggestion_l2 |-> ""],
      [ai_suggestion_l1 |-> "s", ai_suggestion_l2 |-> "s"] }

\* Python's truth of an optional string.
Truthy(value) == value \notin {NoneStr, ""}

\* A variant of ClassificationUpdate that also marks the row confirmed.
ClassificationConfirms(classification_result) ==
    [ai_suggestion_l1 |-> classification_result.ai_suggestion_l1,
     ai_suggestion_l2 |-> classification_result.ai_suggestion_l2,
     is_classified_by_ai |-> 1, is_confirmed_by_user |-> 1]

\* A variant of ClassificationUpdate that also files the row under the
\* suggested categories.
ClassificationCategorises(classification_result) ==
    [ai_suggestion_l1 |-> classification_result.ai_suggestion_l1,
     ai_suggestion_l2 |-> classification_result.ai_suggestion_l2,
     is_classified_by_ai |-> 1,
     category_l1 |-> classification_result.ai_suggestion_l1,
     category_l2 |-> classification_result.ai_suggestion_l2]

\* update_data of the classifier.
ClassificationUpdate(classification_result) ==
    [ai_suggestion_l1 |-> classification_result.ai_suggestion_l1,
     ai_suggestion_l2 |-> classification_result.ai_suggestion_l2,
     is_classified_by_ai |-> 1]

\* The row after the classifier got the result for it.
Classified(row, classification_result) ==
    IF /\ Truthy(classification_result.ai_suggestion_l1)
       /\ Truthy(classification_result.ai_suggestion_l2)
    THEN update_expense(row, ClassificationUpdate(classification_result))
    ELSE row

Did(name, id) == [name |-> name, id |-> id]

\* The importer stores one more row.
ImportExpense(raw) ==
    /\ Len(lc.rows) < MaxExpenses
    /\ lc' = [rows |-> Append(lc.rows, StoredExpense(ExpenseRow(RecordWith(raw), "Alipay", 0))),
              op |-> Did("import_data", Len(lc.rows) + 1)]

\* classify_single_expense: a missing row, a confirmed row and a row without
\* description are left alone.
ClassifySingle(expense_id, classification_result) ==
    /\ lc' = [rows |-> IF /\ expense_id \in DOMAIN lc.rows
                          /\ lc.rows[expense_id].is_confirmed_by_user # 1
                          /\ lc.rows[expense_id].described
                       THEN [lc.rows EXCEPT
                                ![expense_id] = Classified(@, classification_result)]
                       ELSE lc.rows,
              op |-> Did("classify_single_expense", expense_id)]

\* classify_batch_expenses: the first `limit` rows, by id, that are neither
\* classified nor confirmed are fetched; each with a description is
\* classified.
ToProcess(rows, limit) ==
    LET matching == {i \in DOMAIN rows : /\ rows[i].is_classified_by_ai = 0
                                         /\ rows[i].is_confirmed_by_user = 0}
    IN  {i \in matching : Cardinality({j \in matching : j < i}) < limit}

ClassifyBatch(limit, results) ==
    /\ lc' = [rows |-> [i \in DOMAIN lc.rows |->
                          IF i \in ToProcess(lc.rows, limit) /\ lc.rows[i].described
                          THEN Classified(lc.rows[i], results[i])
                          ELSE lc.rows[i]],
              op |-> Did("classify_batch_expenses", 0)]

\* The bodies a client can send to update_expense_by_user: any of the
\* fields, a category being null, empty or a name.
PayloadKeys == {"category_l1", "category_l2", "notes"}

Payloads ==
    UNION { {payload \in [keys -> {NoneStr, "", "c", "n"}] :
                /\ "notes" \in keys => payload["notes"] = "n"
                /\ \A k \in keys \ {"notes"} : payload[k] # "n"} :
            keys \in SUBSET PayloadKeys }

\* Lines 147-153: is the body accepted, and the update it becomes.
Accepted(update_payload) ==
    /\ DOMAIN update_payload # {}
    /\ ("category_l1" \in DOMAIN update_payload \/ "category_l2" \in DOMAIN update_payload)
           => /\ "category_l1" \in DOMAIN update_payload
              /\ "category_l2" \in DOMAIN update_payload
              /\ Truthy(update_payload["category_l1"])
              /\ Truthy(update_payload["category_l2"])

Confirming(update_payload) ==
    IF "category_l1" \in DOMAIN update_payload \/ "category_l2" \in DOMAIN update_payload
    THEN [column \in DOMAIN update_payload \cup {"is_confirmed_by_user"} |->
             IF column = "is_confirmed_by_user" THEN 1 ELSE update_payload[column]]
    ELSE update_payload

\* update_expense_by_user: a body that is refused and a row that is not
\* there change nothing.
UpdateExpenseByUser(expense_id, update_payload) ==
    /\ lc' = [rows |-> IF Accepted(update_payload) /\ expense_id \in DOMAIN lc.rows
                       THEN [lc.rows EXCEPT
                                ![expense_id] = update_expense(@, Confirming(update_payload))]
                       ELSE lc.rows,
              op |-> Did("update_expense_by_user", expense_id)]

\* batch_clear_categories on the ids.
BatchClearCategories(expense_ids) ==
    /\ lc' = [rows |-> [i \in DOMAIN lc.rows |->
                          IF i \in expense_ids
                          THEN [lc.rows[i] EXCEPT !.category_l1 = NoneStr,
                                                  !.category_l2 = NoneStr,
                                                  !.is_classified_by_ai = 0,
                                                  !.is_confirmed_by_user = 0,
                                                  !.updated_at = 1]
                          ELSE lc.rows[i]],
              op |-> Did("batch_clear_categories", 0)]

ExpenseIds == 1..MaxExpenses

InitLifecycle ==
    /\ InitStore
    /\ expenses = {}
    /\ fs = <<>>
    /\ budget = [c \in Conns |-> 0]
    /\ faults = 0
    /\ cl = NoClean
    /\ am = NoAmount
    /\ pf = NoParse
    /\ lc = NoLifecycle
    /\ rq = NoRequests
    /\ rt = NoRetry

NextLifecycle ==
    /\ \/ \E raw \in {<<>>, <<"a">>} : ImportExpense(raw)
       \/ \E expense_id \in ExpenseIds, result \in LLMResults :
              ClassifySingle(expense_id, result)
       \/ \E limit \in ExpenseIds, results \in [ExpenseIds -> LLMResults] :
              ClassifyBatch(limit, results)
       \/ \E expense_id \in ExpenseIds, payload \in Payloads :
              UpdateExpenseByUser(expense_id, payload)
       \/ \E expense_ids \in SUBSET ExpenseIds : BatchClearCategories(expense_ids)
    /\ UNCHANGED <<expenses, import_sources, wlock, txn, txn_audit, pc, call_channel, fs,
                   parsed_records, idx, summary, current_time_iso, clock, budget,
                   faults, ctx, last, cl, am, pf, rq, rt>>

SpecLifecycle == InitLifecycle /\ [][NextLifecycle]_vars

\* ------------------------------------------- requests and connections
\* db.py keeps one connection per thread in threading.local(): here
\* rq.connection[t] is the attribute of thread t (0: no attribute),
\* connections are numbered as they are made, and rq.closed holds those
\* closed.  FastAPI runs the two halves of a generator dependency on worker
\* threads of a pool, each half on whichever thread is free.

\* get_db_connection on thread t: the thread's connection, made on first use.
get_db_connection(state, t) ==
    IF state.connection[t] = 0
    THEN [state EXCEPT !.connection[t] = state.made + 1, !.made = state.made + 1]
    ELSE state

\* close_db_connection on thread t: the thread's connection is closed and the
\* attribute deleted; nothing happens on a thread without one.
close_db_connection(state, t) ==
    IF state.connection[t] # 0
    THEN [state EXCEPT !.closed = @ \cup {state.connection[t]}, !.connection[t] = 0]
    ELSE state

\* get_db up to its yield, run on thread t for request r.
GetDbEnter(r, t) ==
    /\ rq.req[r].pc = "new"
    /\ LET state == get_db_connection(rq, t)
       IN  rq' = [state EXCEPT !.req[r].pc = "using",
                               !.req[r].conn = state.connection[t]]

\* The handler of request r runs a statement on the connection it was given;
\* on a closed connection sqlite3 raises ProgrammingError.
Statement(r) ==
    /\ rq.req[r].pc = "using"
    /\ rq.req[r].statements < MaxStatements
    /\ rq' = [rq EXCEPT !.req[r].statements = @ + 1,
                        !.req[r].failed = @ \/ rq.req[r].conn \in rq.closed]

\* The finally clause of get_db, run on thread t when request r ends.
GetDbExit(r, t) ==
    /\ rq.req[r].pc = "using"
    /\ rq' = [close_db_connection(rq, t) EXCEPT !.req[r].pc = "done"]

InitRequests ==
    /\ InitStore
    /\ expenses = {}
    /\ fs = <<>>
    /\ budget = [c \in Conns |-> 0]
    /\ faults = 0
    /\ cl = NoClean
    /\ am = NoAmount
    /\ pf = NoParse
    /\ lc = NoLifecycle
    /\ rq = NoRequests
    /\ rt = NoRetry

NextRequests ==
    /\ \E r \in Requests :
          \/ \E t \in Threads : GetDbEnter(r, t)
          \/ Statement(r)
          \/ \E t \in Threads : GetDbExit(r, t)
    /\ UNCHANGED <<expenses, import_sources, wlock, txn, txn_audit, pc, call_channel, fs,
                   parsed_records, idx, summary, current_time_iso, clock, budget,
                   faults, ctx, last, cl, am, pf, lc, rt>>

SpecRequests == InitRequests /\ [][NextRequests]_vars

\* ------------------------------------------- the classification call
\* What the caller's configuration is: complete, or short of something
\* get_llm_classification needs before it sends a request.
Configs ==
    {"ok", "no_default_service", "no_service_config", "no_api_key", "no_model_name",
     "no_prompt_template", "no_preset_categories", "bad_prompt_template"}

\* How one attempt ends: requests.post, raise_for_status and response.json()
\* give a JSON value that is truthy ("json") or falsy ("empty_json"), or raise
\* Timeout, ConnectionError, HTTPError with a status of 500 or more or below
\* 500, or any other Exception.
Outcomes ==
    {"json", "empty_json", "timeout", "connection_error", "http_5xx", "http_4xx",
     "exception"}

\* 2 ** attempt
RECURSIVE Pow2(_)
Pow2(n) == IF n = 0 THEN 1 ELSE 2 * Pow2(n - 1)

\* sleep_time = INITIAL_BACKOFF_SECONDS * (2 ** attempt)
SleepTime(attempt) == INITIAL_BACKOFF_SECONDS * Pow2(attempt)

\* A variant of ReturnsAtOnce in which no HTTP error ends the call.
ReturnsAtOnceNever(outcome) == FALSE

\* Lines 136-139: an HTTP error with a status below 500 returns None.
ReturnsAtOnce(outcome) == outcome = "http_4xx"

\* break: the loop is left with the JSON value of the response.
Breaks(outcome) == outcome \in {"json", "empty_json"}

\* get_llm_classification is called: the configuration is read and the prompt
\* built, lines 36-108; anything missing returns None before a request is sent.
CallLLM(config) ==
    /\ rt.pc = "idle"
    /\ rt' = IF config = "ok"
             THEN [rt EXCEPT !.config = config, !.pc = "post"]
             ELSE [rt EXCEPT !.config = config, !.pc = "returned", !.result = "None"]

\* One pass of the for loop up to its sleep: the request is sent and ends with
\* this outcome; parsed tells whether the response content names both
\* categories (lines 156-175).
Attempt(outcome, parsed) ==
    /\ rt.pc = "post"
    /\ LET sent == [rt EXCEPT !.outcomes = Append(@, outcome)]
       IN  rt' = IF Breaks(outcome)
                 THEN [sent EXCEPT !.pc = "returned",
                                   !.result = IF outcome = "json" /\ parsed
                                              THEN "suggestion" ELSE "None"]
                 ELSE IF ReturnsAtOnce(outcome)
                 THEN [sent EXCEPT !.pc = "returned", !.result = "None"]
                 ELSE IF rt.attempt < MAX_RETRIES - 1
                 THEN [sent EXCEPT !.pc = "sleep"]
                 ELSE [sent EXCEPT !.pc = "returned", !.result = "None"]

\* time.sleep(sleep_time) returns and the loop goes to its next attempt.
Sleep ==
    /\ rt.pc = "sleep"
    /\ rt' = [rt EXCEPT !.slept = Append(@, SleepTime(rt.attempt)),
                        !.attempt = @ + 1, !.pc = "post"]

InitRetry ==
    /\ InitStore
    /\ expenses = {}
    /\ fs = <<>>
    /\ budget = [c \in Conns |-> 0]
    /\ faults = 0
    /\ cl = NoClean
    /\ am = NoAmount
    /\ pf = NoParse
    /\ lc = NoLifecycle
    /\ rq = NoRequests
    /\ rt = NoRetry

NextRetry ==
    /\ \/ \E config \in Configs : CallLLM(config)
       \/ \E outcome \in Outcomes, parsed \in BOOLEAN : Attempt(outcome, parsed)
       \/ Sleep
    /\ UNCHANGED <<expenses, import_sources, wlock, txn, txn_audit, pc, call_channel, fs,
                   parsed_records, idx, summary, current_time_iso, clock, budget,
                   faults, ctx, last, cl, am, pf, lc, rq>>

SpecRetry == InitRetry /\ [][NextRetry]_vars

\* A request ends within REQUEST_TIMEOUT_SECONDS and a sleep ends, so a call
\* that can take a step takes one.
SpecRetryFair == SpecRetry /\ WF_vars(NextRetry)

\* =============================================================== properties
\* A call that has reached its return statement.
Returning(c) == pc[c] = "done"

\* C1: when a client imports the same file under the same channel twice in a
\* row and neither call meets a storage error, the second call returns
\* successfully_imported = 0 and skipped_duplicates equal to the first call's
\* total_records_in_file, and leaves the set of stored expense rows as it was.
C1_IdempotentReimport ==
    \A c \in Conns :
        (Returning(c) /\ ctx[c].reimport /\ ctx[c].errs = {}) =>
            /\ summary[c].successfully_imported = 0
            /\ summary[c].skipped_duplicates = ctx[c].prev_total
            /\ expenses = ctx[c].before

\* A second call returns on a file of two eligible rows, both stored before.
C1_Witness ==
    \E c \in Conns :
        /\ Returning(c) /\ ctx[c].reimport /\ ctx[c].errs = {}
        /\ ctx[c].prev_total = 2
        /\ summary[c].skipped_duplicates = 2
        /\ Cardinality(expenses) = 2

\* C2: at every moment of any run of calls, one after the other or
\* interleaved on two connections, no two stored expense rows have the same
\* external_transaction_id.
C2_UniqueExternalId ==
    \A r1 \in expenses, r2 \in expenses :
        r1.external_transaction_id = r2.external_transaction_id => r1 = r2

\* Both connections have committed a batch holding the same id, and one row
\* with that id is stored.
C2_Witness ==
    /\ \A c \in Conns : Returning(c) /\ summary[c].total_records_in_file > 0
    /\ \E c \in Conns, d \in Conns :
         /\ c # d
         /\ \E i \in DOMAIN parsed_records[c], j \in DOMAIN parsed_records[d] :
              /\ parsed_records[c][i].external_transaction_id
                    = parsed_records[d][j].external_transaction_id
              /\ parsed_records[c][i].transaction_time
                    # parsed_records[d][j].transaction_time
              /\ \E r \in expenses :
                   r.external_transaction_id = parsed_records[c][i].external_transaction_id

\* The statuses of the audit rows stored for the call of connection c.
AuditStatuses(c) ==
    {import_sources[i].status :
        i \in {j \in DOMAIN import_sources :
                 import_sources[j].import_timestamp = current_time_iso[c]}}

Supported(c) == call_channel[c] \in {"WeChat Pay", "Alipay"}

FailureStatuses ==
    {"Failed (Parsing)", "Failed (Internal Error)", "Failed (DB Error on Empty)",
     "Failed (DB Errors)", "Failed"}

\* C3: when the file has no header row, or its header lacks a required
\* column, the call stores no expense row, returns parse_errors > 0, and its
\* audit row carries the status "Failed (Parsing)".
C3_ParseFailureRecorded ==
    \A c \in Conns :
        (Returning(c) /\ Supported(c) /\ ctx[c].errs = {}
         /\ ctx[c].kind \in {"no_header", "missing_critical"}) =>
            /\ expenses = ctx[c].before
            /\ summary[c].parse_errors > 0
            /\ AuditStatuses(c) = {"Failed (Parsing)"}

C5_CleaningSafety ==
    (cl.done /\ cl.raw # <<>>) =>
        /\ cl.source_raw_description = cl.raw
        /\ Len(cl.description_for_ai) > 0

\* A description that is nothing but a prefix: the cleaner empties it and
\* answers the original.
C5_Witness ==
    /\ cl.done
    /\ cl.raw = <<"fu", "kuan", "-">>
    /\ cl.description_for_ai = cl.raw

\* The INSERT of connection c is about to be refused for its id.
IdTaken(c) ==
    /\ pc[c] = "insert"
    /\ CanWrite(c)
    /\ UniqueViolation(View(c), parsed_records[c][idx[c]].external_transaction_id)

\* C6: a step in which the INSERT is refused by the UNIQUE constraint adds one
\* to skipped_duplicates and nothing to insert_errors, changes no stored or
\* pending row, and moves on to the next row or to the end of the loop.
C6_UniqueIsDuplicate ==
    [][\A c \in Conns :
          (IdTaken(c) /\ pc'[c] # "insert" /\ faults' = faults) =>
              /\ summary'[c].skipped_duplicates = summary[c].skipped_duplicates + 1
              /\ summary'[c].insert_errors = summary[c].insert_errors
              /\ summary'[c].successfully_imported = summary[c].successfully_imported
              /\ expenses' = expenses
              /\ txn' = txn
              /\ pc'[c] \in {"check", "record"}
              /\ idx'[c] = IF pc'[c] = "check" THEN idx[c] + 1 ELSE idx[c]]_vars

\* The second row of a file was refused for the id of the first, which is
\* pending in the same transaction, and counted as a duplicate.
C6_Witness ==
    \E c \in Conns :
        /\ Returning(c) /\ ctx[c].errs = {}
        /\ ctx[c].before = {}
        /\ summary[c].total_records_in_file = 2
        /\ summary[c].successfully_imported = 1
        /\ summary[c].skipped_duplicates = 1
        /\ parsed_records[c][1].transaction_time # parsed_records[c][2].transaction_time

\* C7: when an INSERT of the row loop or the batch commit fails with a storage
\* error, the call leaves no expense row of its own stored and reports a
\* storage failure: errors in its summary and a failure status in its audit row.
C7_StorageErrorRollsBack ==
    \A c \in Conns :
        (Returning(c) /\ summary[c].total_records_in_file > 0
         /\ ctx[c].errs \subseteq {"insert", "commit"} /\ ctx[c].errs # {}) =>
            /\ expenses = ctx[c].before
            /\ summary[c].insert_errors > 0
            /\ AuditStatuses(c) \subseteq FailureStatuses

\* Connection c made a call whose file has one eligible row, with this id.
OneRowCall(c, id) ==
    /\ Returning(c)
    /\ "overlap" \in ctx[c].errs
    /\ ctx[c].errs \subseteq {"overlap", "busy"}
    /\ Len(parsed_records[c]) = 1
    /\ parsed_records[c][1].external_transaction_id = id

\* C8: when two overlapping calls on two connections each bring one row with
\* the same id, one row with that id is stored, one call counts its row as
\* imported and the other as a skipped duplicate, and neither counts an
\* insert error.
C8_RaceOnOneId ==
    \A id \in {"A", "B"} :
        (OneRowCall("c1", id) /\ OneRowCall("c2", id)) =>
            /\ Cardinality({r \in expenses : r.external_transaction_id = id}) = 1
            /\ summary["c1"].insert_errors = 0
            /\ summary["c2"].insert_errors = 0
            /\ summary["c1"].successfully_imported + summary["c2"].successfully_imported = 1
            /\ summary["c1"].skipped_duplicates + summary["c2"].skipped_duplicates = 1

Partial(status) == status \in {"Partial (DB Errors)", "Partial (Skipped/Duplicates)"}

\* C9: the status of a call's audit row is "Failed (Parsing)" when a parse
\* error occurred; otherwise "Success (No Data)" when the file gave no usable
\* row; it is a Partial status only if 0 < imported < total, and "Success"
\* only if imported = total.
C9_StatusPrecedence ==
    \A c \in Conns :
        Returning(c) =>
            \A status \in AuditStatuses(c) :
                LET imported == summary[c].successfully_imported
                    total == summary[c].total_records_in_file
                IN  /\ summary[c].parse_errors > 0 => status = "Failed (Parsing)"
                    /\ (summary[c].parse_errors = 0 /\ total = 0)
                           => status = "Success (No Data)"
                    /\ Partial(status) => (0 < imported /\ imported < total)
                    /\ status = "Success" => imported = total

\* C10: when the file does not exist, or no candidate encoding decodes it,
\* the call stores no expense row, reports an error in its summary, and its
\* audit row carries a failure status.
C10_FileFailureVisible ==
    \A c \in Conns :
        (Returning(c) /\ Supported(c) /\ ctx[c].errs = {}
         /\ ctx[c].kind \in {"missing", "undecodable"}) =>
            /\ expenses = ctx[c].before
            /\ summary[c].parse_errors > 0
            /\ AuditStatuses(c) # {}
            /\ AuditStatuses(c) \subseteq FailureStatuses

\* A raw row is eligible when it is an outflow the platform completed.
Eligible(row, channel) ==
    /\ _get_row_value(row, "dir") = "zhichu"
    /\ _get_row_value(row, "status") = SuccessStatus(channel)

AmountOf(row, channel) ==
    _clean_amount(_get_row_value(row, "amount"), CurrencySymbol(channel))

\* An eligible row whose amount text is no decimal number.
Corrupted(row, channel) == Eligible(row, channel) /\ AmountOf(row, channel) = None

\* An eligible row with an amount and a time the parser can read.
WellFormed(row, channel) ==
    /\ Eligible(row, channel)
    /\ AmountOf(row, channel) # None
    /\ _parse_datetime(_get_row_value(row, "time")) # NoneStr

\* The rows of the file the client imports, by position.
FileRows == IF fs = <<>> THEN <<>> ELSE fs[1][1].rows

ValidAt(channel) == {i \in DOMAIN FileRows : WellFormed(FileRows[i], channel)}

CorruptedAt(channel) == {i \in DOMAIN FileRows : Corrupted(FileRows[i], channel)}

DistinctIds(positions) ==
    \A i, j \in positions : i # j => FileRows[i].id # FileRows[j].id

\* The store held, when the call began, no row with an id of the file.
FreshIds(c) ==
    \A e \in ctx[c].before, i \in DOMAIN FileRows :
        e.external_transaction_id # FileRows[i].id

\* C11: a file with N valid eligible rows of distinct ids and M rows with a
\* corrupted amount, imported into a store that holds none of its ids by a
\* call that meets no storage error, returns successfully_imported = N and
\* insert_errors = 0; the corrupted rows are not stored and the N valid rows
\* are.
C11_PartialTolerance ==
    \A c \in Conns :
        (/\ Returning(c) /\ Supported(c) /\ ctx[c].kind = "ok" /\ ctx[c].errs = {}
         /\ DistinctIds(ValidAt(call_channel[c])) /\ FreshIds(c)) =>
            /\ summary[c].successfully_imported = Cardinality(ValidAt(call_channel[c]))
            /\ summary[c].insert_errors = 0
            /\ summary[c].total_records_in_file = Cardinality(ValidAt(call_channel[c]))
            /\ ctx[c].before \subseteq expenses
            /\ {e.external_transaction_id : e \in expenses \ ctx[c].before}
                   = {FileRows[i].id : i \in ValidAt(call_channel[c])}
            /\ Cardinality(expenses \ ctx[c].before) = Cardinality(ValidAt(call_channel[c]))

C11_Witness ==
    \E c \in Conns :
        /\ Returning(c) /\ Supported(c) /\ ctx[c].kind = "ok" /\ ctx[c].errs = {}
        /\ DistinctIds(ValidAt(call_channel[c])) /\ FreshIds(c)
        /\ Cardinality(ValidAt(call_channel[c])) = 1
        /\ Cardinality(CorruptedAt(call_channel[c])) = 1
        /\ summary[c].successfully_imported = 1
        /\ Cardinality(expenses \ ctx[c].before) = 1

\* The call of connection c repeats, on the same file, a call that returned
\* having met row-level insert errors only: of its K rows it stored j and
\* failed to insert the other K - j.
AfterPartialFailure(c) ==
    /\ ctx[c].again
    /\ ctx[c].prev.errs = {"insert"}
    /\ ctx[c].prev.insert_errors > 0
    /\ ctx[c].prev.imported + ctx[c].prev.insert_errors = ctx[c].prev.total

\* What C12 says of such a second call: all K rows again, the j stored ones
\* skipped, an insert attempted for the other K - j.
ReprocessesAll(c) ==
    /\ summary[c].total_records_in_file = ctx[c].prev.total
    /\ summary[c].skipped_duplicates = ctx[c].prev.imported
    /\ summary[c].successfully_imported + summary[c].insert_errors
           = ctx[c].prev.insert_errors

IsDigits(s) == s # <<>> /\ \A i \in DOMAIN s : s[i] \in Digits

\* The position of the decimal point of an amount text, 0 when it has none.
PointAt(text) ==
    IF \E k \in DOMAIN text : text[k] = "."
    THEN CHOOSE k \in DOMAIN text : text[k] = "." /\ \A j \in 1..(k - 1) : text[j] # "."
    ELSE 0

\* The text is the yen sign, digits that thousands separators may group, a
\* point and decimal digits.
CurrencyAmount(text) ==
    /\ Len(text) >= 4 /\ Head(text) = "Y" /\ PointAt(text) > 2
    /\ LET whole == SubSeq(text, 2, PointAt(text) - 1)
       IN  /\ Head(whole) # "," /\ whole[Len(whole)] # ","
           /\ IsDigits(Remove(whole, <<",">>))
    /\ IsDigits(SubSeq(text, PointAt(text) + 1, Len(text)))

\* The decimal number such a text writes.
ExactValue(text) ==
    [sign |-> 0,
     int |-> StripLeadingZeros(Remove(SubSeq(text, 2, PointAt(text) - 1), <<",">>)),
     frac |-> SubSeq(text, PointAt(text) + 1, Len(text))]

\* C13: an amount field made of a currency symbol, digits with thousands
\* separators and a decimal part is parsed to the exact decimal value and its
\* row is kept; an empty or whitespace-only amount field makes the row be
\* dropped.
C13_AmountNormalization ==
    am.done =>
        /\ CurrencyAmount(am.raw) => (am.kept /\ am.amount = ExactValue(am.raw))
        /\ Strip(am.raw) = <<>> => ~am.kept

\* The rows of the file that survive the filtering, in file order.
RECURSIVE SurvivingFrom(_, _)
SurvivingFrom(rows, channel) ==
    IF rows = <<>> THEN <<>>
    ELSE (IF WellFormed(Head(rows), channel) THEN <<Head(rows)>> ELSE <<>>)
             \o SurvivingFrom(Tail(rows), channel)

\* The parsed record is the one of the raw row.
RecordOf(record, row, channel) ==
    /\ record.external_transaction_id = _get_row_value(row, "id")
    /\ record.transaction_time = _parse_datetime(_get_row_value(row, "time"))
    /\ record.amount = AmountOf(row, channel)
    /\ record.channel = channel

\* C14: the records a parser returns are exactly the well-formed rows whose
\* direction is outflow and whose status is the platform's success status, in
\* file order; the other rows count as no error, and total_records_in_file
\* is the number of rows that survived.
C14_DirectionStatusFiltering ==
    \A c \in Conns :
        (Returning(c) /\ Supported(c) /\ ctx[c].kind = "ok") =>
            LET surviving == SurvivingFrom(FileRows, call_channel[c])
            IN  /\ Len(parsed_records[c]) = Len(surviving)
                /\ \A k \in DOMAIN surviving :
                       /\ k \in DOMAIN parsed_records[c]
                       /\ RecordOf(parsed_records[c][k], surviving[k], call_channel[c])
                /\ summary[c].total_records_in_file = Len(surviving)
                /\ summary[c].parse_errors = 0
                /\ ctx[c].errs = {} => summary[c].insert_errors = 0

C14_Witness ==
    \E c \in Conns :
        /\ Returning(c) /\ Supported(c) /\ ctx[c].kind = "ok" /\ ctx[c].errs = {}
        /\ Len(FileRows) = 2
        /\ \E i \in DOMAIN FileRows :
               /\ _get_row_value(FileRows[i], "dir") = "zhichu"
               /\ _get_row_value(FileRows[i], "status") = "zhifu_shibai"
        /\ Len(parsed_records[c]) = 1
        /\ summary[c].total_records_in_file = 1
        /\ summary[c].successfully_imported = 1

\* The lines are a preamble, the header of the channel at line h, data rows
\* up to line f - 1, and a footer from line f on.
Shaped(lines, channel, h, f) ==
    /\ h \in DOMAIN lines /\ f \in (h + 1)..(Len(lines) + 1)
    /\ HasCritical(lines[h], channel)
    /\ \A i \in 1..(h - 1) : lines[i] \in PreambleLines
    /\ \A i \in (h + 1)..(f - 1) : lines[i].kind = "data"
    /\ \A i \in f..Len(lines) : lines[i] \in FooterLines

\* The expenses of the data rows of lines h + 1 to f - 1.
ExpensesBetween(lines, channel, h, f) ==
    ParseRows(ReadableRows(SubSeq(lines, h + 1, f - 1)), channel,
              SuccessStatus(channel), CurrencySymbol(channel), <<>>)

\* C15: whatever lines precede the header line and follow the last data
\* row, the parser takes the first line with the header names for the header
\* and returns the expenses of the data rows between header and footer, and
\* of no other line.
C15_HeaderDiscovery ==
    (pf.done /\ pf.file.exists /\ pf.file.encoding \in {"utf-8", "gbk"}) =>
        \A h \in DOMAIN pf.file.lines, f \in 1..(Len(pf.file.lines) + 1) :
            Shaped(pf.file.lines, pf.channel, h, f) =>
                /\ ~pf.result.raised
                /\ pf.result.expenses = ExpensesBetween(pf.file.lines, pf.channel, h, f)

\* C18: the parsers never raise, and they return an empty list when the file
\* does not exist, when no candidate encoding decodes it, when it has no
\* header line, and when its header lacks a critical column.
C18_ParsersReturnEmptyList ==
    pf.done =>
        /\ ~pf.result.raised
        /\ FileKind(FileOf(pf.file, pf.channel)) # "ok" => pf.result.expenses = <<>>

\* The row with the id is, in the state, stored and confirmed by the user.
Confirmed(state, expense_id) ==
    /\ expense_id \in DOMAIN state.rows
    /\ state.rows[expense_id].is_confirmed_by_user = 1

\* C16: over any sequence of imports, AI classifications (single and batch),
\* user updates and clear-categories operations, is_confirmed_by_user of a
\* row becomes true only in a user update of that row that supplies a
\* non-empty category_l1 and a non-empty category_l2.
C16_UserConfirmation ==
    [][\A expense_id \in ExpenseIds :
          (~Confirmed(lc, expense_id) /\ Confirmed(lc', expense_id)) =>
              /\ lc'.op = Did("update_expense_by_user", expense_id)
              /\ \E payload \in Payloads :
                     /\ {"category_l1", "category_l2"} \subseteq DOMAIN payload
                     /\ Truthy(payload["category_l1"])
                     /\ Truthy(payload["category_l2"])
                     /\ UpdateExpenseByUser(expense_id, payload)]_vars

C16_Witness ==
    \E expense_id \in ExpenseIds :
        /\ Confirmed(lc, expense_id)
        /\ lc.rows[expense_id].is_classified_by_ai = 1
        /\ lc.rows[expense_id].category_l1 = "c"
        /\ lc.op.name = "update_expense_by_user" /\ lc.op.id = expense_id

\* The persisted audit rows of the call of connection c: those with the
\* call's timestamp.
AuditRowsOf(c) ==
    {j \in DOMAIN import_sources :
        import_sources[j].import_timestamp = current_time_iso[c]}

\* A step keeps every persisted audit row where and as it was.
AuditRowsKept ==
    \A j \in DOMAIN import_sources :
        j \in DOMAIN import_sources' /\ import_sources'[j] = import_sources[j]

\* C17: every call of import_data that returns leaves exactly one new
\* persisted import_sources row for the call, and no step updates or deletes
\* a persisted import_sources row.
C17_OneAuditRecordPerCall ==
    /\ [](\A c \in Conns : Returning(c) => Cardinality(AuditRowsOf(c)) = 1)
    /\ [][AuditRowsKept]_vars

\* The INSERT of the row at hand of connection c raises an error other than
\* the UNIQUE constraint in this step.
InsertFails(c) ==
    /\ pc[c] = "insert"
    /\ \/ faults' = faults - 1
       \/ ~CanWrite(c)

\* The row loop goes on after the row at hand: to the next row, or past the
\* last one to the audit record and the commit.
GoesOn(c) ==
    IF idx[c] < Len(parsed_records[c])
    THEN pc'[c] = "check" /\ idx'[c] = idx[c] + 1
    ELSE pc'[c] = "record"

\* C19: when the INSERT of one row fails with an error other than the
\* uniqueness violation, insert_errors grows by one, the rows inserted so
\* far stay in the transaction and the loop goes on with the next row; a
\* call that met only such errors has counted every row once and committed
\* every row it inserted.
C19_RowLevelIsolation ==
    /\ [][\A c \in Conns :
             InsertFails(c) =>
                 /\ summary'[c] = Bump(summary[c], "insert_errors")
                 /\ txn'[c] = txn[c] /\ expenses' = expenses
                 /\ GoesOn(c)]_vars
    /\ [](\A c \in Conns :
             (Returning(c) /\ ctx[c].errs = {"insert"}) =>
                 /\ summary[c].insert_errors > 0
                 /\ summary[c].successfully_imported + summary[c].skipped_duplicates
                        + summary[c].insert_errors = summary[c].total_records_in_file
                 /\ ctx[c].before \subseteq expenses
                 /\ Cardinality(expenses \ ctx[c].before)
                        = summary[c].successfully_imported
                 /\ txn[c] = {})

C19_Witness ==
    \E c \in Conns :
        /\ Returning(c) /\ ctx[c].errs = {"insert"}
        /\ summary[c].total_records_in_file = 2
        /\ summary[c].insert_errors = 1
        /\ summary[c].successfully_imported = 1
        /\ parsed_records[c][1].external_transaction_id
               # parsed_records[c][2].external_transaction_id
        /\ \E e \in expenses \ ctx[c].before :
               e.external_transaction_id = parsed_records[c][2].external_transaction_id

\* The duplicate-check query of the row at hand of connection c fails in
\* this step.
CheckFails(c) == pc[c] = "check" /\ faults' = faults - 1

\* C20: when the duplicate-check query fails, the row is taken for no
\* duplicate and its insert is attempted; a call that met only such failures
\* has counted each row as imported or, its id being stored already, as a
\* skipped duplicate, and no id is stored twice.
C20_FailOpenDuplicateCheck ==
    /\ [][\A c \in Conns :
             CheckFails(c) =>
                 pc'[c] = "insert" /\ idx'[c] = idx[c] /\ summary'[c] = summary[c]]_vars
    /\ [](\A c \in Conns :
             (Returning(c) /\ ctx[c].errs = {"check"}) =>
                 /\ summary[c].insert_errors = 0
                 /\ summary[c].successfully_imported + summary[c].skipped_duplicates
                        = summary[c].total_records_in_file
                 /\ Cardinality(expenses \ ctx[c].before)
                        = summary[c].successfully_imported
                 /\ ctx[c].before \subseteq expenses
                 /\ \A k \in DOMAIN parsed_records[c] :
                        Cardinality({e \in expenses :
                            e.external_transaction_id
                                = parsed_records[c][k].external_transaction_id}) = 1
                 /\ \A k \in DOMAIN parsed_records[c] :
                        (\E e \in ctx[c].before :
                            e.external_transaction_id
                                = parsed_records[c][k].external_transaction_id)
                            => summary[c].skipped_duplicates > 0)

C20_Witness ==
    \E c \in Conns :
        /\ Returning(c) /\ ctx[c].errs = {"check"}
        /\ summary[c].total_records_in_file = 1
        /\ summary[c].skipped_duplicates = 1
        /\ \E e \in ctx[c].before :
               e.external_transaction_id = parsed_records[c][1].external_transaction_id
        /\ expenses = ctx[c].before

\* The cleaning steps leave nothing, or a bare separator, of the description.
ReducedToNothing(raw) == CleaningSteps(raw) \in {<<>>, <<"-">>, <<"/">>}

\* C21: whenever the cleaning steps reduce a non-empty raw description to the
\* empty text or to a bare "-" or "/", the cleaner answers the original raw
\* description unchanged.
C21_CleanerFallback ==
    (cl.done /\ cl.raw # <<>> /\ ReducedToNothing(cl.raw)) =>
        cl.description_for_ai = cl.raw

\* C22: every record the parsers produce and every stored expense row has a
\* non-empty external_transaction_id: a row whose id column is empty is
\* dropped at parse time, so it is in no parser's list, is inserted by no
\* call and is counted by none.
C22_RequiredTransactionId ==
    /\ \A e \in expenses : e.external_transaction_id # ""
    /\ \A c \in Conns : \A i \in DOMAIN parsed_records[c] :
           parsed_records[c][i].external_transaction_id # ""

\* Connection c commits in this step.
Commits(c) == pc[c] \in CommitPcs /\ pc'[c] # pc[c]

\* The rows and the audit rows this step makes visible to every connection.
RowsShown == expenses' \ expenses

AuditShown == SubSeq(import_sources', Len(import_sources) + 1, Len(import_sources'))

\* C23: the expense rows one call inserts and the call's audit record become
\* visible together, in one commit: the committed tables change only when a
\* call commits, the rows shown are all the rows the call inserted, rows are
\* never shown without the call's audit record, and an audit record is never
\* shown without the rows it counts.
C23_SingleTransactionalBoundary ==
    [][ (expenses' # expenses \/ import_sources' # import_sources) =>
          \E c \in Conns :
             /\ Commits(c)
             /\ RowsShown = txn[c]
             /\ RowsShown # {} => Len(AuditShown) = 1
             /\ \A i \in DOMAIN AuditShown :
                    AuditShown[i].records_imported = Cardinality(RowsShown) ]_vars

\* The text begins with one of the known prefixes.
BeginsWithPrefix(s) ==
    \E i \in DOMAIN generic_prefixes_to_remove : StartsWith(s, generic_prefixes_to_remove[i])

\* C24: the prefix rules are applied to a fixed point: unless the cleaner fell
\* back to the original description, the cleaned description begins with none
\* of the known prefixes, in whatever order prefixes were stacked in the raw
\* description.
C24_PrefixFixedPoint ==
    (cl.done /\ cl.raw # <<>> /\ cl.description_for_ai # cl.raw) =>
        ~BeginsWithPrefix(cl.description_for_ai)

\* The requests that hold a connection from get_db and have not ended.
Using == {r \in Requests : rq.req[r].pc = "using"}

\* C25: get_db gives each request a connection of its own, and a connection a
\* request is still using is never closed by the teardown of another request.
C25_PerRequestConnection ==
    /\ \A r1, r2 \in Using : r1 # r2 => rq.req[r1].conn # rq.req[r2].conn
    /\ \A r \in Using : rq.req[r].conn \notin rq.closed

\* The rows the summary of connection c accounts for.
Counted(c) ==
    summary[c].successfully_imported + summary[c].skipped_duplicates
    + summary[c].insert_errors

\* C26: a call that returns without a parse error has successfully_imported +
\* skipped_duplicates + insert_errors = total_records_in_file, on the rollback
\* paths too; while the row loop runs, the rows before the current one are
\* counted once each.
C26_SummaryAccounting ==
    \A c \in Conns :
        /\ (Returning(c) /\ summary[c].parse_errors = 0) =>
               Counted(c) = summary[c].total_records_in_file
        /\ pc[c] \in {"check", "insert"} => Counted(c) = idx[c] - 1

\* A call whose batch commit failed returns after the rollback, one row
\* counted as imported and one as a duplicate.
C26_Witness ==
    \E c \in Conns :
        /\ Returning(c)
        /\ "commit" \in ctx[c].errs
        /\ summary[c].parse_errors = 0
        /\ summary[c].total_records_in_file = 2
        /\ summary[c].successfully_imported = 1
        /\ summary[c].skipped_duplicates = 1

\* The expense rows the call of connection c left persisted.
Persisted(c) == expenses \ ctx[c].before

SuccessStatuses == {"Success", "Success (No Data)", "Success (All Duplicates/Skipped)"}

\* The call of connection c rolled its batch back.
RolledBack(c) == summary[c].status_message = "Database error during import batch"

\* C27: when a call returns, successfully_imported in its summary and
\* records_imported in its audit record both equal the number of expense rows
\* the call left persisted; after a rollback both are 0 and the audit status
\* is no success status.
C27_SummaryMatchesStorage ==
    \A c \in Conns :
        Returning(c) =>
            /\ summary[c].successfully_imported = Cardinality(Persisted(c))
            /\ \A j \in AuditRowsOf(c) :
                   import_sources[j].records_imported = Cardinality(Persisted(c))
            /\ RolledBack(c) =>
                   /\ summary[c].successfully_imported = 0
                   /\ AuditStatuses(c) \cap SuccessStatuses = {}

\* Connection c is done with the row at hand in this step.
Finishes(c) ==
    /\ pc[c] \in {"check", "insert"}
    /\ idx'[c] # idx[c] \/ pc'[c] = "record"

\* The step adds one to this counter of connection c.
Counts(c, counter) == summary'[c][counter] = summary[c][counter] + 1

\* The store, with the rows the call inserted earlier, holds the id of the row
\* at hand of connection c.
HoldsId(c) ==
    \E e \in View(c) :
        e.external_transaction_id = parsed_records[c][idx[c]].external_transaction_id

\* The call of connection c has met no storage error, in this step or before.
NoStorageError(c) == ctx[c].errs = {} /\ ctx'[c].errs = {}

\* C28: absent storage errors, a row is counted in skipped_duplicates exactly
\* when the store, with the rows inserted earlier in the call, holds a record
\* with the row's external_transaction_id, whatever that record's channel,
\* time and amount; otherwise the row is inserted and counted as imported.
C28_SkipCharacterisation ==
    [][ \A c \in Conns :
          (NoStorageError(c) /\ Finishes(c)) =>
             /\ Counts(c, "skipped_duplicates") <=> HoldsId(c)
             /\ ~HoldsId(c) =>
                    /\ Counts(c, "successfully_imported")
                    /\ txn'[c] = txn[c] \cup {ExpenseRow(parsed_records[c][idx[c]],
                                                         call_channel[c],
                                                         current_time_iso[c])} ]_vars

\* An Alipay call has skipped its one row for a stored WeChat Pay row that has
\* the same id and another amount.
C28_Witness ==
    \E c \in Conns :
        /\ Returning(c) /\ ctx[c].errs = {}
        /\ call_channel[c] = "Alipay"
        /\ summary[c].total_records_in_file = 1
        /\ summary[c].skipped_duplicates = 1
        /\ \E e \in expenses :
               /\ e.channel = "WeChat Pay"
               /\ e.external_transaction_id = parsed_records[c][1].external_transaction_id
               /\ e.amount # StrDecimal(parsed_records[c][1].amount)

\* The outcomes of an attempt after which the claim allows another attempt.
Retriable == {"timeout", "connection_error", "http_5xx", "exception"}

\* The outcome of the attempt made last.
LastOutcome == rt.outcomes[Len(rt.outcomes)]

\* What C29 says of every state of a call.
RetryBounded ==
    /\ Len(rt.outcomes) <= 3
    /\ \A i \in 1..(Len(rt.outcomes) - 1) : rt.outcomes[i] \in Retriable
    /\ Len(rt.slept) <= 2
    /\ \A i \in DOMAIN rt.slept : rt.slept[i] = <<1, 2>>[i]
    /\ rt.pc = "post" => Len(rt.slept) = Len(rt.outcomes)
    /\ (rt.outcomes # <<>> /\ LastOutcome = "http_4xx") =>
           rt.pc = "returned" /\ rt.result = "None"
    /\ (Len(rt.outcomes) = 3 /\ LastOutcome \in Retriable) =>
           rt.pc = "returned" /\ rt.result = "None"

\* C29: one call of get_llm_classification sends at most 3 requests and
\* returns; a request is sent again only after a timeout, a connection error,
\* an HTTP 5xx answer or an unexpected exception, after a wait of 1 s and then
\* of 2 s; an HTTP error with a status below 500 returns None at once; after
\* the last failed attempt the call returns None.
C29_BoundedRetry == [](RetryBounded) /\ <>(rt.pc = "returned")

\* Three attempts failed, with the two waits between them, and the call
\* returned None.
C29_Witness ==
    /\ rt.pc = "returned"
    /\ rt.outcomes = <<"timeout", "http_5xx", "connection_error">>
    /\ rt.slept = <<1, 2>>
    /\ rt.result = "None"

\* The columns classification may write.
ClassificationColumns ==
    {"ai_suggestion_l1", "ai_suggestion_l2", "is_classified_by_ai", "updated_at"}

\* The step keeps the rows there are and, of each, every column but these.
ChangesOnly(columns) ==
    /\ DOMAIN lc'.rows = DOMAIN lc.rows
    /\ \A i \in DOMAIN lc.rows :
           \A column \in DOMAIN lc.rows[i] \ columns :
               lc'.rows[i][column] = lc.rows[i][column]

\* C30: classify_single_expense and classify_batch_expenses change only
\* ai_suggestion_l1, ai_suggestion_l2, is_classified_by_ai and updated_at of a
\* row, never category_l1, category_l2 or is_confirmed_by_user, and
\* classify_single_expense changes nothing of a row the user has confirmed.
C30_ClassificationFrame ==
    [][ /\ lc'.op.name \in {"classify_single_expense", "classify_batch_expenses"} =>
              ChangesOnly(ClassificationColumns)
        /\ (/\ lc'.op.name = "classify_single_expense"
            /\ lc'.op.id \in DOMAIN lc.rows
            /\ lc.rows[lc'.op.id].is_confirmed_by_user = 1) =>
               lc'.rows = lc.rows ]_vars

\* classify_single_expense has classified a row, and left alone a row the
\* user confirmed.
C30_Witness ==
    \E i, j \in DOMAIN lc.rows :
        /\ lc.op = Did("classify_single_expense", i)
        /\ lc.rows[i].is_classified_by_ai = 1
        /\ lc.rows[i].ai_suggestion_l1 = "s"
        /\ lc.rows[i].updated_at = 1
        /\ lc.rows[i].is_confirmed_by_user = 0
        /\ lc.rows[j].is_confirmed_by_user = 1
        /\ lc.rows[j].is_classified_by_ai = 0

=============================================================================
